---- MODULE Spec2Model ----
(***************************************************************************)
(* A model of mcrconpy's protocol engine (src/mcrconpy/core.py): the       *)
(* Packet codec at byte level, the synchronous client Rcon, the            *)
(* asynchronous client AsyncRcon, and the TCP peer they talk to.           *)
(*                                                                         *)
(* A Python value is a record [t, n, s]: its type tag, its integer value   *)
(* (ints) and its items (the code points of a str, the bytes of a bytes).  *)
(* A method is an operator from the object's fields, the network and the   *)
(* environment's choices for that call to the fields and the network       *)
(* after it, with the exception it raised ("" for none) and its return     *)
(* value.                                                                  *)
(***************************************************************************)
EXTENDS Integers, Sequences, FiniteSets, TLC

VARIABLES
    mode,     \* which client main() runs: "sync" (Rcon), "async" (AsyncRcon), "codec"
    rcon,     \* the Rcon object: [socket, _logged_in, password]
    arcon,    \* the AsyncRcon object: [_reader, _writer, _ready, password]
    net,      \* the TCP connections: see NetInit
    scope,    \* the with-statement around the client: "none", "body", "left"
    ops,      \* calls made so far
    last,     \* history: the last completed call, see NoCall
    stale,    \* history: an async command was abandoned since the last connect
    cin,      \* codec: the arguments of Packet.build
    cout,     \* codec: what build returned and what decode made of it
    wire,     \* codec: a value handed to read_length and decode, and what they did
    gui,      \* the RconGUI object, its threads and its timers: see GuiInit
    fs,       \* the files of save_config: see FsInit
    audit,    \* the audit log file and what to_load returned: see AuditInit
    user,     \* the User object and the last method called on it: see UserInit
    clock,    \* the wall clock get_timestamp() reads
    tasks,    \* the asyncio tasks that call command() on one AsyncRcon: see TasksInit
    pair      \* two runs that differ only in the password: see PairInit

vars ==
    <<mode, rcon, arcon, net, scope, ops, last, stale, cin, cout, wire,
      gui, fs, audit, user, clock, tasks, pair>>

appVars == <<gui, fs, audit, user, clock, tasks, pair>>

sessionVars == <<rcon, arcon, net, scope, ops, last, stale>>

codecVars == <<cin, cout, wire>>

----------------------------------------------------------------------------
(* Bounds of the model *)

\* calls made on one client object
MaxOps == 4

\* TCP connections opened in one run
MaxConns == 2

\* longest payload the codec specification builds (besides "secret")
MaxLen == 2

\* events the main loop of the GUI handles in one run: Connect and Send
\* pressed, a timer expired
MaxEvents == 3

\* worker threads of the GUI alive at one time
MaxThreads == 2

\* parts in which a serialized configuration reaches the disk
MaxChunks == 2

\* the latest reading of the wall clock
MaxTime == 4

\* lines appended to the audit file in one run
MaxLines == 3

----------------------------------------------------------------------------
(* Python values *)

PyInt(n) == [t |-> "int", n |-> n, s |-> <<>>]

PyStr(s) == [t |-> "str", n |-> 0, s |-> s]

PyBytes(s) == [t |-> "bytes", n |-> 0, s |-> s]

PyNone == [t |-> "None", n |-> 0, s |-> <<>>]

PyTrue == [t |-> "bool", n |-> 1, s |-> <<>>]

PyFalse == [t |-> "bool", n |-> 0, s |-> <<>>]

\* a float, here 1.5: no int, no str, no bytes
PyFloat == [t |-> "float", n |-> 0, s |-> <<>>]

\* isinstance(v, int): bool is a subclass of int
IsInt(v) == v.t \in {"int", "bool"}

Take(s, k) == SubSeq(s, 1, IF k < Len(s) THEN k ELSE Len(s))

Drop(s, k) == SubSeq(s, k + 1, Len(s))

----------------------------------------------------------------------------
(* struct: little-endian signed 32-bit integers *)

INT32_MAX == 2147483647

InInt32(v) == v >= (-INT32_MAX) - 1 /\ v <= INT32_MAX

\* struct.pack("<i", v): two's complement, least significant byte first
struct_pack_i(v) ==
    LET w  == IF v >= 0 THEN v ELSE (v + INT32_MAX) + 1
        hi == w \div 16777216
    IN  << w % 256, (w \div 256) % 256, (w \div 65536) % 256,
           IF v >= 0 THEN hi ELSE hi + 128 >>

\* struct.unpack("<i", b)[0] for a b of 4 bytes
struct_unpack_i(b) ==
    LET lo == b[1] + 256 * b[2] + 65536 * b[3]
    IN  IF b[4] < 128
        THEN lo + 16777216 * b[4]
        ELSE ((lo + 16777216 * (b[4] - 128)) - INT32_MAX) - 1

----------------------------------------------------------------------------
(* Packet *)

SERVERDATA_RESPONSE_VALUE == 0

SERVERDATA_EXECCOMMAND == 2

SERVERDATA_AUTH == 3

_PAD == <<0, 0>>

IsAscii(s) == \A i \in 1..Len(s) : s[i] < 128

\* Packet.build with a length of 8 + len(payload): the two pad bytes forgotten
Packet_build_short(req_id, packet_type, data) ==
    IF ~IsInt(req_id) \/ req_id.n < 0 THEN [raised |-> "ErrorParameter", bytes |-> <<>>]
    ELSE IF data.t \notin {"str", "bytes"} THEN [raised |-> "ErrorParameter", bytes |-> <<>>]
    ELSE [raised |-> "",
          bytes |-> struct_pack_i(8 + Len(data.s)) \o struct_pack_i(req_id.n)
                    \o struct_pack_i(packet_type.n) \o data.s \o _PAD]

\* Packet.build without the test req_id < 0
Packet_build_anyid(req_id, packet_type, data) ==
    IF ~IsInt(req_id) \/ ~IsInt(packet_type)
    THEN [raised |-> "ErrorParameter", bytes |-> <<>>]
    ELSE IF data.t = "str" /\ ~IsAscii(data.s)
    THEN [raised |-> "UnicodeEncodeError", bytes |-> <<>>]
    ELSE IF data.t \notin {"str", "bytes"}
    THEN [raised |-> "ErrorParameter", bytes |-> <<>>]
    ELSE [raised |-> "",
          bytes |-> struct_pack_i(10 + Len(data.s)) \o struct_pack_i(req_id.n)
                    \o struct_pack_i(packet_type.n) \o data.s \o _PAD]

\* Packet.build(req_id, packet_type, data): the frame, or the exception raised
Packet_build(req_id, packet_type, data) ==
    IF ~IsInt(req_id) \/ req_id.n < 0
    THEN [raised |-> "ErrorParameter", bytes |-> <<>>]
    ELSE IF ~IsInt(packet_type)
    THEN [raised |-> "ErrorParameter", bytes |-> <<>>]
    ELSE IF data.t = "str" /\ ~IsAscii(data.s)
    THEN [raised |-> "UnicodeEncodeError", bytes |-> <<>>]
    ELSE IF data.t \notin {"str", "bytes"}
    THEN [raised |-> "ErrorParameter", bytes |-> <<>>]
    ELSE LET payload == data.s
             length  == 10 + Len(payload)
         IN  IF ~(InInt32(length) /\ InInt32(req_id.n) /\ InInt32(packet_type.n))
             THEN [raised |-> "struct.error", bytes |-> <<>>]
             ELSE [raised |-> "",
                   bytes |-> struct_pack_i(length) \o struct_pack_i(req_id.n)
                             \o struct_pack_i(packet_type.n) \o payload \o _PAD]

\* Packet.read_length that takes 4 bytes for too few
Packet_read_length_le4(data) ==
    IF Len(data) <= 4 THEN 0 ELSE struct_unpack_i(SubSeq(data, 1, 4))

\* Packet.read_length(data)
Packet_read_length(data) ==
    IF Len(data) < 4 THEN 0 ELSE struct_unpack_i(SubSeq(data, 1, 4))

\* Packet.read_length(v) for a Python value v: len() raises TypeError for a
\* value without a length, struct.unpack raises TypeError (no struct.error)
\* for a str
Packet_read_length_call(v) ==
    IF v.t \notin {"bytes", "str"} THEN [raised |-> "TypeError", ret |-> 0]
    ELSE IF v.t = "str" /\ Len(v.s) >= 4 THEN [raised |-> "TypeError", ret |-> 0]
    ELSE [raised |-> "", ret |-> Packet_read_length(v.s)]

\* Packet.decode that takes the body up to the end of the buffer
Packet_decode_pad(data) ==
    IF Len(data) < 14 THEN <<>>
    ELSE << struct_unpack_i(SubSeq(data, 1, 4)), struct_unpack_i(SubSeq(data, 5, 8)),
            struct_unpack_i(SubSeq(data, 9, 12)), PyStr(SubSeq(data, 13, Len(data))) >>

\* Packet.decode that takes 12 bytes, the header alone, for enough
Packet_decode_12(data) ==
    IF Len(data) < 12 THEN <<>>
    ELSE IF ~IsAscii(SubSeq(data, 13, Len(data) - 2)) THEN <<>>
    ELSE << struct_unpack_i(SubSeq(data, 1, 4)), struct_unpack_i(SubSeq(data, 5, 8)),
            struct_unpack_i(SubSeq(data, 9, 12)), PyStr(SubSeq(data, 13, Len(data) - 2)) >>

\* Packet.decode(data): (length, req_id, packet_type, body), or () on failure
Packet_decode(data) ==
    IF Len(data) < 14 THEN <<>>
    ELSE LET length      == struct_unpack_i(SubSeq(data, 1, 4))
             req_id      == struct_unpack_i(SubSeq(data, 5, 8))
             packet_type == struct_unpack_i(SubSeq(data, 9, 12))
             body_bytes  == SubSeq(data, 13, Len(data) - 2)
         IN  IF ~IsAscii(body_bytes) THEN <<>>
             ELSE <<length, req_id, packet_type, PyStr(body_bytes)>>

\* Packet.decode(v) for a Python value v: TypeError as for read_length
Packet_decode_call(v) ==
    IF v.t \notin {"bytes", "str"} THEN [raised |-> "TypeError", ret |-> <<>>]
    ELSE IF v.t = "str" /\ Len(v.s) >= 14 THEN [raised |-> "TypeError", ret |-> <<>>]
    ELSE [raised |-> "", ret |-> Packet_decode(v.s)]

----------------------------------------------------------------------------
(* The TCP peer *)

\* LET x == v IN F(x), with v evaluated once
Let1(v, F(_)) == CHOOSE y \in {F(x) : x \in {v}} : TRUE

Conns == 1..MaxConns

\* self.socket / self._reader / self._writer when no transport is held
None == 0

\* a draw that can give -1
ReqIds_from_minus_one == {-1, 0, INT32_MAX}

\* random.randint(0, 2147483647): the values drawn in the model
ReqIds == {0, INT32_MAX}

\* Each connection: the bytes received and not yet read (inbuf), how the peer
\* ended it (eof: "no", "fin" for an orderly close, "rst" for a reset), the
\* requests the server has not answered (pending), the requests it was sent
\* (nreq); open: the connections whose descriptor the client has not closed;
\* written: the bytes the client has written, over all connections.
NetInit ==
    [nconn |-> 0, open |-> {}, written |-> 0,
     inbuf |-> [c \in Conns |-> <<>>], eof |-> [c \in Conns |-> "no"],
     pending |-> [c \in Conns |-> <<>>], nreq |-> [c \in Conns |-> 0],
     rlog |-> <<>>]

\* the reads of the call in progress: what each read asked for and what it got
NetRead(nt, n, data) == [nt EXCEPT !.rlog = Append(@, [n |-> n, data |-> data])]

\* the call is over
NetReturn(nt) == [nt EXCEPT !.rlog = <<>>]

\* The frame layout of the protocol, as the server writes it
Frame(id, type, payload) ==
    struct_pack_i(10 + Len(payload)) \o struct_pack_i(id) \o struct_pack_i(type)
    \o payload \o <<0, 0>>

\* What the server makes of request q = [id, type, n]: the reply that echoes
\* the id (its body names the request, "a" + n), the authentication failure
\* (id -1), a frame that declares length 0, a frame whose body is not ASCII
ReplyKinds == {"echo", "authfail", "short", "nonascii"}

ReplyBytes(q, kind) ==
    CASE kind = "echo"     -> Frame(q.id, SERVERDATA_RESPONSE_VALUE, <<97 + q.n>>)
      [] kind = "authfail" -> Frame(-1, SERVERDATA_EXECCOMMAND, <<>>)
      [] kind = "short"    -> struct_pack_i(0)
      [] kind = "nonascii" -> Frame(q.id, SERVERDATA_RESPONSE_VALUE, <<255>>)

\* What the peer does while a call waits: answer the oldest unanswered request
\* (kind; "none": stay silent), deliver only the first cut bytes of the answer
\* (-1: all of it), and end the connection or not (end).
SrvBehaviours ==
    [kind : ReplyKinds, cut : {-1}, end : {"no"}]
    \cup [kind : {"echo"}, cut : {2, 4, 8, 14}, end : {"fin"}]
    \cup [kind : {"none"}, cut : {-1}, end : {"no", "fin", "rst"}]

\* The environment's choices for one call: how the connection attempt ends,
\* the request id drawn, whether the write succeeds, what the peer does, and
\* how a blocked await is given up (the timeout expires, the task is cancelled)
NoEnv ==
    [conn |-> "ok", req_id |-> 0, send |-> "ok",
     srv |-> [kind |-> "none", cut |-> -1, end |-> "no"], giveup |-> "timeout"]

\* a connection attempt that fails
RefusedEnvs == {[NoEnv EXCEPT !.conn = k] : k \in {"timeout", "refused"}}

\* one request-reply exchange on a connection
ExchangeEnvs ==
    {[NoEnv EXCEPT !.send = "fail"]}
    \cup {[NoEnv EXCEPT !.req_id = i, !.srv = b] : i \in ReqIds, b \in SrvBehaviours}

\* the same under asyncio: a wait on a silent peer ends by timeout or by cancellation
AsyncExchangeEnvs ==
    ExchangeEnvs \cup {[NoEnv EXCEPT !.req_id = i, !.giveup = "cancel"] : i \in ReqIds}

\* socket.create_connection / asyncio.open_connection succeeded: a new connection
NetOpen(nt) ==
    [nt EXCEPT !.nconn = @ + 1, !.open = @ \cup {nt.nconn + 1}]

\* socket.close() / writer.close()
NetClose(nt, c) == [nt EXCEPT !.open = @ \ {c}]

\* sendall(packet) / write(packet) and drain(): the bytes are on the wire and,
\* unless the peer is gone, the server has one more request to answer
\* a client that writes its request a second time
NetSend_again(nt, c, packet, req_id, type) ==
    IF nt.eof[c] # "no"
    THEN [nt EXCEPT !.written = @ + 2 * Len(packet)]
    ELSE [nt EXCEPT !.written = @ + 2 * Len(packet),
                    !.nreq[c] = @ + 2,
                    !.pending[c] = @ \o <<[id |-> req_id, type |-> type, n |-> nt.nreq[c]],
                                           [id |-> req_id, type |-> type, n |-> nt.nreq[c] + 1]>>]

NetSend(nt, c, packet, req_id, type) ==
    IF nt.eof[c] # "no"
    THEN [nt EXCEPT !.written = @ + Len(packet)]
    ELSE [nt EXCEPT !.written = @ + Len(packet),
                    !.nreq[c] = @ + 1,
                    !.pending[c] = Append(@, [id |-> req_id, type |-> type, n |-> nt.nreq[c]])]

\* The peer acts on connection c as b says. A reset discards what was received.
NetPeer(nt, c, b) ==
    IF nt.eof[c] # "no" THEN nt
    ELSE LET answers == b.kind # "none" /\ nt.pending[c] # <<>>
             reply   == IF answers THEN ReplyBytes(Head(nt.pending[c]), b.kind) ELSE <<>>
             bytes   == IF b.cut < 0 THEN reply ELSE Take(reply, b.cut)
         IN  [nt EXCEPT !.pending[c] = IF answers THEN Tail(@) ELSE @,
                        !.inbuf[c]   = IF b.end = "rst" THEN <<>> ELSE @ \o bytes,
                        !.eof[c]     = b.end]

----------------------------------------------------------------------------
(* What a call did: the object and the network after it, the exception it  *)
(* raised ("" for none), its return value, the request id it sent (<<>>    *)
(* for none), the reply id it decoded (<<>> for none), the transport       *)
(* failure it met ("" for none: "conn-timeout" and "refused" for the       *)
(* connection attempt, "send", "eof", "rst", "timeout" for the exchange,   *)
(* "cancelled" for a wait the caller cancelled) and the connection it      *)
(* opened (None for none).                                                 *)

Did(self, nt, raised, ret, req_id, rid, fail, opened) ==
    [self |-> self, net |-> nt, raised |-> raised, ret |-> ret, req_id |-> req_id,
     rid |-> rid, fail |-> fail, opened |-> opened]

\* The first failure of two reads
Fail2(f1, f2) == IF f1 # "" THEN f1 ELSE f2

----------------------------------------------------------------------------
(* Rcon: the synchronous client *)

RconInit == [socket |-> None, _logged_in |-> FALSE, password |-> PyStr(<<112, 119>>)]

\* the command sent: "list"
Cmd == PyStr(<<108, 105, 115, 116>>)

\* Rcon.connect() with except OSError first: TimeoutError is an OSError
Rcon_connect_oserror(self, nt, env) ==
    IF env.conn \in {"timeout", "refused"}
    THEN Did(self, nt, "ServerError", PyNone, <<>>, <<>>,
             IF env.conn = "timeout" THEN "conn-timeout" ELSE "refused", None)
    ELSE Did([self EXCEPT !.socket = nt.nconn + 1], NetOpen(nt), "", PyNone,
             <<>>, <<>>, "", nt.nconn + 1)

\* Rcon.connect(): a successful call replaces self.socket
Rcon_connect(self, nt, env) ==
    CASE env.conn = "timeout" ->
            Did(self, nt, "ServerTimeOut", PyNone, <<>>, <<>>, "conn-timeout", None)
      [] env.conn = "refused" ->
            Did(self, nt, "ServerError", PyNone, <<>>, <<>>, "refused", None)
      [] OTHER ->
            Did([self EXCEPT !.socket = nt.nconn + 1], NetOpen(nt), "", PyNone,
                <<>>, <<>>, "", nt.nconn + 1)

\* Rcon._recv_exact(n): the socket has the 10 s timeout connect() gave it, so a
\* recv() with nothing to read raises; what it had read by then is lost
Rcon__recv_exact(self, nt, n) ==
    LET c == self.socket IN
    IF c = None THEN [data |-> <<>>, net |-> nt, raised |-> "", fail |-> ""]
    ELSE IF n <= Len(nt.inbuf[c])
    THEN [data |-> Take(nt.inbuf[c], n),
          net |-> NetRead([nt EXCEPT !.inbuf[c] = Drop(@, n)], n, Take(nt.inbuf[c], n)),
          raised |-> "", fail |-> ""]
    ELSE IF nt.eof[c] = "fin"
    THEN [data |-> nt.inbuf[c],
          net |-> NetRead([nt EXCEPT !.inbuf[c] = <<>>], n, nt.inbuf[c]),
          raised |-> "", fail |-> "eof"]
    ELSE IF nt.eof[c] = "rst"
    THEN [data |-> <<>>, net |-> NetRead([nt EXCEPT !.inbuf[c] = <<>>], n, <<>>),
          raised |-> "ConnectionResetError", fail |-> "rst"]
    ELSE [data |-> <<>>, net |-> NetRead([nt EXCEPT !.inbuf[c] = <<>>], n, <<>>),
          raised |-> "TimeoutError", fail |-> "timeout"]

\* the reply check of login() without the reset of _logged_in
Rcon_login_reply_keep(self, rid) ==
    IF rid = -1
    THEN [self |-> self, raised |-> "ServerAuthError", ret |-> PyNone]
    ELSE [self |-> [self EXCEPT !._logged_in = TRUE], raised |-> "", ret |-> PyTrue]

\* the reply check of login() with _logged_in set before the id is looked at
Rcon_login_reply_early(self, rid) ==
    IF rid = -1
    THEN [self |-> [self EXCEPT !._logged_in = TRUE], raised |-> "ServerAuthError",
          ret |-> PyNone]
    ELSE [self |-> [self EXCEPT !._logged_in = TRUE], raised |-> "", ret |-> PyTrue]

\* Rcon.login(), from the decoded reply on: the check of its request id
Rcon_login_reply(self, rid) ==
    IF rid = -1
    THEN [self |-> [self EXCEPT !._logged_in = FALSE], raised |-> "ServerAuthError",
          ret |-> PyNone]
    ELSE [self |-> [self EXCEPT !._logged_in = TRUE], raised |-> "", ret |-> PyTrue]

\* Rcon.login()
Rcon_login(self, nt, env) ==
    IF self.socket = None
    THEN Did(self, nt, "SocketConnectionError", PyNone, <<>>, <<>>, "", None)
    ELSE
    Let1(Packet_build(PyInt(env.req_id), PyInt(SERVERDATA_AUTH), self.password), LAMBDA packet :
    IF packet.raised # ""
    THEN Did(self, nt, packet.raised, PyNone, <<>>, <<>>, "", None)
    ELSE IF env.send = "fail"
    THEN \* sendall() raises
         Did(self, nt, "OSError", PyNone, <<>>, <<>>, "send", None)
    ELSE
    Let1(NetPeer(NetSend(nt, self.socket, packet.bytes, env.req_id, SERVERDATA_AUTH),
                 self.socket, env.srv), LAMBDA n1 :
    Let1(Rcon__recv_exact(self, n1, 4), LAMBDA r1 :
    IF r1.raised # ""
    THEN Did(self, r1.net, r1.raised, PyNone, <<env.req_id>>, <<>>, r1.fail, None)
    ELSE IF r1.data = <<>>
    THEN Did(self, r1.net, "SocketConnectionError", PyNone, <<env.req_id>>, <<>>, r1.fail, None)
    ELSE
    Let1(Rcon__recv_exact(self, r1.net, Packet_read_length(r1.data)), LAMBDA r2 :
    IF r2.raised # ""
    THEN Did(self, r2.net, r2.raised, PyNone, <<env.req_id>>, <<>>, Fail2(r1.fail, r2.fail), None)
    ELSE
    Let1(Packet_decode(r1.data \o r2.data), LAMBDA d :
    IF d = <<>>
    THEN \* unpacking the empty tuple
         Did(self, r2.net, "ValueError", PyNone, <<env.req_id>>, <<>>, Fail2(r1.fail, r2.fail), None)
    ELSE
    Let1(Rcon_login_reply(self, d[2]), LAMBDA k :
         Did(k.self, r2.net, k.raised, k.ret, <<env.req_id>>, <<d[2]>>,
             Fail2(r1.fail, r2.fail), None)))))))

\* the guard of command() that forgets the login check
Rcon_command_refuses_socket(self) == self.socket = None

\* Rcon.command(): the guard that returns None before anything is sent
Rcon_command_refuses(self) == ~self._logged_in \/ self.socket = None

\* except OSError in place of except Exception
Rcon_command_except_oserror(exc) ==
    IF exc \in {"OSError", "TimeoutError", "ConnectionResetError"} THEN "" ELSE exc

\* Rcon.command(): what is left of an exception raised in the try block once
\* `except Exception: return None` has run: nothing
Rcon_command_except(exc) == ""

\* Rcon.command(cmd): every exception of the exchange becomes None
Rcon_command(self, nt, cmd, env) ==
    IF Rcon_command_refuses(self)
    THEN Did(self, nt, "", PyNone, <<>>, <<>>, "", None)
    ELSE
    Let1(Packet_build(PyInt(env.req_id), PyInt(SERVERDATA_EXECCOMMAND), cmd), LAMBDA packet :
    IF packet.raised # ""
    THEN \* build is called outside the try
         Did(self, nt, packet.raised, PyNone, <<>>, <<>>, "", None)
    ELSE IF env.send = "fail"
    THEN \* sendall() raises
         Did(self, nt, Rcon_command_except("OSError"), PyNone, <<>>, <<>>, "send", None)
    ELSE
    Let1(NetPeer(NetSend(nt, self.socket, packet.bytes, env.req_id, SERVERDATA_EXECCOMMAND),
                 self.socket, env.srv), LAMBDA n1 :
    Let1(Rcon__recv_exact(self, n1, 4), LAMBDA r1 :
    IF r1.raised # ""
    THEN Did(self, r1.net, Rcon_command_except(r1.raised), PyNone, <<env.req_id>>, <<>>,
             r1.fail, None)
    ELSE IF r1.data = <<>>
    THEN Did(self, r1.net, Rcon_command_except("SocketConnectionError"), PyNone,
             <<env.req_id>>, <<>>, r1.fail, None)
    ELSE
    Let1(Rcon__recv_exact(self, r1.net, Packet_read_length(r1.data)), LAMBDA r2 :
    IF r2.raised # ""
    THEN Did(self, r2.net, Rcon_command_except(r2.raised), PyNone, <<env.req_id>>, <<>>,
             Fail2(r1.fail, r2.fail), None)
    ELSE
    Let1(Packet_decode(r1.data \o r2.data), LAMBDA d :
    IF d = <<>>
    THEN \* unpacking the empty tuple
         Did(self, r2.net, Rcon_command_except("ValueError"), PyNone, <<env.req_id>>, <<>>,
             Fail2(r1.fail, r2.fail), None)
    ELSE Did(self, r2.net, "", d[4], <<env.req_id>>, <<d[2]>>, Fail2(r1.fail, r2.fail), None))))))

\* close() that leaves _logged_in as it is
Rcon_close_keep(self, nt) ==
    IF self.socket # None
    THEN Did([self EXCEPT !.socket = None], NetClose(nt, self.socket), "", PyNone,
             <<>>, <<>>, "", None)
    ELSE Did(self, nt, "", PyNone, <<>>, <<>>, "", None)

\* Rcon.is_login()
Rcon_is_login(self) == self._logged_in

\* Rcon.close()
Rcon_close(self, nt) ==
    IF self.socket # None
    THEN Did([self EXCEPT !.socket = None, !._logged_in = FALSE],
             NetClose(nt, self.socket), "", PyNone, <<>>, <<>>, "", None)
    ELSE Did([self EXCEPT !._logged_in = FALSE], nt, "", PyNone, <<>>, <<>>, "", None)

\* Rcon.__enter__(): connect() then login(); the first exception ends it
Rcon___enter__(self, nt, env) ==
    Let1(Rcon_connect(self, nt, env), LAMBDA r1 :
    IF r1.raised # "" THEN r1
    ELSE [Rcon_login(r1.self, r1.net, env) EXCEPT !.opened = r1.opened])

\* Rcon.__exit__()
Rcon___exit__(self, nt) == Rcon_close(self, nt)

----------------------------------------------------------------------------
(* AsyncRcon: the asynchronous client *)

ARconInit ==
    [_reader |-> None, _writer |-> None, _ready |-> FALSE, password |-> PyStr(<<112, 119>>)]

LOGIN == 3

COMMAND == 2

\* asyncio.wait_for(coro, timeout): a coroutine that blocks for good is
\* cancelled, by the timeout (TimeoutError) or with the caller's task
asyncio_wait_for(r, env) ==
    IF r.raised = "CancelledError" /\ env.giveup = "timeout"
    THEN [r EXCEPT !.raised = "TimeoutError"]
    ELSE IF r.raised = "CancelledError"
    THEN [r EXCEPT !.fail = "cancelled"]
    ELSE r

\* AsyncRcon._read_exact(n): StreamReader.readexactly(n) takes its n bytes at
\* once; a cancelled read leaves the buffer as it is
AsyncRcon__read_exact(self, nt, n) ==
    LET c == self._reader IN
    IF c = None
    THEN [data |-> <<>>, net |-> nt, raised |-> "SocketConnectionError", fail |-> ""]
    ELSE IF n < 0
    THEN [data |-> <<>>, net |-> nt, raised |-> "ValueError", fail |-> ""]
    ELSE IF nt.eof[c] = "rst"
    THEN [data |-> <<>>, net |-> NetRead(nt, n, <<>>),
          raised |-> "ConnectionResetError", fail |-> "rst"]
    ELSE IF n <= Len(nt.inbuf[c])
    THEN [data |-> Take(nt.inbuf[c], n),
          net |-> NetRead([nt EXCEPT !.inbuf[c] = Drop(@, n)], n, Take(nt.inbuf[c], n)),
          raised |-> "", fail |-> ""]
    ELSE IF nt.eof[c] = "fin"
    THEN \* IncompleteReadError
         [data |-> <<>>, net |-> NetRead([nt EXCEPT !.inbuf[c] = <<>>], n, <<>>),
          raised |-> "SocketConnectionError", fail |-> "eof"]
    ELSE [data |-> <<>>, net |-> NetRead(nt, n, <<>>),
          raised |-> "CancelledError", fail |-> "timeout"]

\* AsyncRcon._send_msg(msg_type, msg): returns (body, rid), here body with rid
AsyncRcon__send_msg(self, nt, msg_type, msg, env) ==
    IF self._writer = None
    THEN Did(self, nt, "SocketConnectionError", PyNone, <<>>, <<>>, "", None)
    ELSE
    Let1(Packet_build(PyInt(env.req_id), PyInt(msg_type), msg), LAMBDA packet :
    IF packet.raised # ""
    THEN Did(self, nt, packet.raised, PyNone, <<>>, <<>>, "", None)
    ELSE IF env.send = "fail"
    THEN \* drain() on a lost connection
         Did(self, nt, "ConnectionResetError", PyNone, <<>>, <<>>, "send", None)
    ELSE
    Let1(NetPeer(NetSend(nt, self._writer, packet.bytes, env.req_id, msg_type),
                 self._writer, env.srv), LAMBDA n1 :
    Let1(AsyncRcon__read_exact(self, n1, 4), LAMBDA r1 :
    IF r1.raised # ""
    THEN Did(self, r1.net, r1.raised, PyNone, <<env.req_id>>, <<>>, r1.fail, None)
    ELSE
    Let1(AsyncRcon__read_exact(self, r1.net, Packet_read_length(r1.data)), LAMBDA r2 :
    IF r2.raised # ""
    THEN Did(self, r2.net, r2.raised, PyNone, <<env.req_id>>, <<>>, r2.fail, None)
    ELSE
    Let1(Packet_decode(r1.data \o r2.data), LAMBDA d :
    IF d = <<>>
    THEN \* unpacking the empty tuple
         Did(self, r2.net, "ValueError", PyNone, <<env.req_id>>, <<>>, "", None)
    ELSE IF d[2] = -1
    THEN Did(self, r2.net, "ServerAuthError", PyNone, <<env.req_id>>, <<d[2]>>, "", None)
    ELSE Did(self, r2.net, "", d[4], <<env.req_id>>, <<d[2]>>, "", None))))))

\* AsyncRcon.connect(timeout): open the connection, then log in
AsyncRcon_connect(self, nt, env) ==
    IF self._ready THEN Did(self, nt, "", PyNone, <<>>, <<>>, "", None)
    ELSE IF env.conn = "timeout"
    THEN Did(self, nt, "ServerTimeOut", PyNone, <<>>, <<>>, "conn-timeout", None)
    ELSE IF env.conn = "refused"
    THEN Did(self, nt, "SocketConnectionError", PyNone, <<>>, <<>>, "refused", None)
    ELSE
    Let1([self EXCEPT !._reader = nt.nconn + 1, !._writer = nt.nconn + 1], LAMBDA s1 :
    Let1(asyncio_wait_for(AsyncRcon__send_msg(s1, NetOpen(nt), LOGIN, self.password, env), env),
         LAMBDA r :
    IF r.raised # ""
    THEN [r EXCEPT !.opened = s1._writer]
    ELSE [r EXCEPT !.self = [s1 EXCEPT !._ready = TRUE], !.ret = PyNone,
                   !.opened = s1._writer]))

\* AsyncRcon.command(): the guard that raises before anything is sent
AsyncRcon_command_refuses(self) == ~self._ready

\* the length test of command() that turns away 1446 characters too
AsyncRcon_command_too_long_ge(cmd) == Len(cmd.s) >= 1446

\* the length test of command() that lets 1447 characters through
AsyncRcon_command_too_long_1447(cmd) == Len(cmd.s) > 1447

\* AsyncRcon.command(): the test len(cmd) > 1446
AsyncRcon_command_too_long(cmd) == Len(cmd.s) > 1446

\* AsyncRcon.command() that returns None when the exchange raises, as
\* Rcon.command() does
AsyncRcon_command_swallows(self, nt, cmd, env) ==
    IF ~self._ready
    THEN Did(self, nt, "SocketConnectionError", PyNone, <<>>, <<>>, "", None)
    ELSE [asyncio_wait_for(AsyncRcon__send_msg(self, nt, COMMAND, cmd, env), env)
             EXCEPT !.raised = ""]

\* AsyncRcon.command(cmd, timeout)
AsyncRcon_command(self, nt, cmd, env) ==
    IF AsyncRcon_command_refuses(self)
    THEN Did(self, nt, "SocketConnectionError", PyNone, <<>>, <<>>, "", None)
    ELSE IF AsyncRcon_command_too_long(cmd)
    THEN Did(self, nt, "ValueError", PyNone, <<>>, <<>>, "", None)
    ELSE asyncio_wait_for(AsyncRcon__send_msg(self, nt, COMMAND, cmd, env), env)

\* AsyncRcon.close()
AsyncRcon_close(self, nt) ==
    Did([self EXCEPT !._reader = None, !._writer = None, !._ready = FALSE],
        IF self._writer # None THEN NetClose(nt, self._writer) ELSE nt,
        "", PyNone, <<>>, <<>>, "", None)

\* AsyncRcon.__aenter__()
AsyncRcon___aenter__(self, nt, env) == AsyncRcon_connect(self, nt, env)

\* AsyncRcon.__aexit__()
AsyncRcon___aexit__(self, nt) == AsyncRcon_close(self, nt)

----------------------------------------------------------------------------
(* The callers: main() runs one client, by explicit calls or in a with      *)
(* statement (_sync_main, _async_main)                                      *)

\* history: no call yet. pre is the object before the call: its authenticated
\* flag, its transport, and whether an abandoned command had left it stale
NoCall ==
    [op |-> "none", cmdlen |-> 0, raised |-> "", ret |-> PyNone, sent |-> 0, reads |-> <<>>,
     req_id |-> <<>>, rid |-> <<>>, fail |-> "", opened |-> None,
     pre |-> [auth |-> FALSE, transport |-> None, stale |-> FALSE]]

\* cmdlen: len(cmd) for a command(cmd), 0 for another call
Called(op, cmd, r, pre) ==
    [op |-> op, cmdlen |-> Len(cmd.s), raised |-> r.raised, ret |-> r.ret,
     sent |-> r.net.written - net.written, reads |-> r.net.rlog,
     req_id |-> r.req_id, rid |-> r.rid, fail |-> r.fail, opened |-> r.opened, pre |-> pre]

SyncPre == [auth |-> rcon._logged_in, transport |-> rcon.socket, stale |-> FALSE]

AsyncPre == [auth |-> arcon._ready, transport |-> arcon._writer, stale |-> stale]

\* a call of the Rcon object has returned or raised; cmd is the argument of
\* command(), None for the other calls
SyncDidCmd(op, cmd, r, sc) ==
    /\ rcon' = r.self
    /\ net' = NetReturn(r.net)
    /\ scope' = sc
    /\ ops' = ops + 1
    /\ last' = Called(op, cmd, r, SyncPre)
    /\ UNCHANGED <<mode, arcon, stale, codecVars, appVars>>

SyncDid(op, r, sc) == SyncDidCmd(op, IF op = "command" THEN Cmd ELSE PyNone, r, sc)

AsyncDidCmd(op, cmd, r, sc) ==
    /\ arcon' = r.self
    /\ net' = NetReturn(r.net)
    /\ scope' = sc
    /\ ops' = ops + 1
    /\ last' = Called(op, cmd, r, AsyncPre)
    /\ stale' = IF op = "command" /\ r.raised \in {"TimeoutError", "CancelledError"}
                THEN TRUE
                ELSE IF op \in {"connect", "__aenter__"} /\ r.raised = "" /\ r.opened # None
                THEN FALSE
                ELSE stale
    /\ UNCHANGED <<mode, rcon, codecVars, appVars>>

AsyncDid(op, r, sc) == AsyncDidCmd(op, IF op = "command" THEN Cmd ELSE PyNone, r, sc)

\* Where a call made inside the with statement leaves it: an exception
\* propagates out of the body, to __exit__
After(r) == IF scope = "body" /\ r.raised # "" THEN "raising" ELSE scope

SyncConnect ==
    /\ mode = "sync" /\ scope = "none" /\ ops < MaxOps /\ net.nconn < MaxConns
    /\ \E env \in RefusedEnvs \cup {NoEnv} :
       \E r \in {Rcon_connect(rcon, net, env)} : SyncDid("connect", r, scope)

SyncLogin ==
    /\ mode = "sync" /\ scope = "none" /\ ops < MaxOps
    /\ \E env \in ExchangeEnvs :
       \E r \in {Rcon_login(rcon, net, env)} : SyncDid("login", r, scope)

SyncCommand ==
    /\ mode = "sync" /\ scope \in {"none", "body"} /\ ops < MaxOps
    /\ \E env \in ExchangeEnvs :
       \E r \in {Rcon_command(rcon, net, Cmd, env)} : SyncDid("command", r, After(r))

SyncClose ==
    /\ mode = "sync" /\ scope = "none" /\ ops < MaxOps
    /\ \E r \in {Rcon_close(rcon, net)} : SyncDid("close", r, scope)

\* with Rcon(...) as client: when __enter__ raises, __exit__ is not called
SyncEnter ==
    /\ mode = "sync" /\ scope = "none" /\ ops = 0
    /\ \E env \in RefusedEnvs \cup ExchangeEnvs :
       \E r \in {Rcon___enter__(rcon, net, env)} :
          SyncDid("__enter__", r, IF r.raised = "" THEN "body" ELSE "left")

\* the end of the with statement, by the end of its body or by an exception in it
SyncExit ==
    /\ mode = "sync" /\ scope \in {"body", "raising"}
    /\ \E r \in {Rcon___exit__(rcon, net)} : SyncDid("__exit__", r, "left")

AsyncConnect ==
    /\ mode = "async" /\ scope = "none" /\ ops < MaxOps /\ net.nconn < MaxConns
    /\ \E env \in RefusedEnvs \cup AsyncExchangeEnvs :
       \E r \in {AsyncRcon_connect(arcon, net, env)} : AsyncDid("connect", r, scope)

AsyncCommand ==
    /\ mode = "async" /\ scope \in {"none", "body"} /\ ops < MaxOps
    /\ \E env \in AsyncExchangeEnvs :
       \E r \in {AsyncRcon_command(arcon, net, Cmd, env)} : AsyncDid("command", r, After(r))

AsyncClose ==
    /\ mode = "async" /\ scope = "none" /\ ops < MaxOps
    /\ \E r \in {AsyncRcon_close(arcon, net)} : AsyncDid("close", r, scope)

\* async with AsyncRcon(...) as client: as for with
AsyncEnter ==
    /\ mode = "async" /\ scope = "none" /\ ops = 0
    /\ \E env \in RefusedEnvs \cup AsyncExchangeEnvs :
       \E r \in {AsyncRcon___aenter__(arcon, net, env)} :
          AsyncDid("__aenter__", r, IF r.raised = "" THEN "body" ELSE "left")

AsyncExit ==
    /\ mode = "async" /\ scope \in {"body", "raising"}
    /\ \E r \in {AsyncRcon___aexit__(arcon, net)} : AsyncDid("__aexit__", r, "left")

\* The commands a caller may pass: "list", a character that is not ASCII, and
\* 1446 and 1447 characters
CmdOfLen(n) == PyStr([k \in 1..n |-> 97])

CmdArgs == {Cmd, PyStr(<<233>>), CmdOfLen(1446), CmdOfLen(1447)}

\* for these: the write fails, the peer answers, the peer stays silent
ArgsEnvs ==
    {[NoEnv EXCEPT !.send = "fail"], NoEnv,
     [NoEnv EXCEPT !.srv = [kind |-> "echo", cut |-> -1, end |-> "no"]]}

AsyncCommandArgs ==
    /\ mode = "async" /\ scope = "none" /\ ops < MaxOps
    /\ \E cmd \in CmdArgs, env \in ArgsEnvs :
       \E r \in {AsyncRcon_command(arcon, net, cmd, env)} :
          AsyncDidCmd("command", cmd, r, scope)

\* The server answers a request late, between two calls of the client
ServerReply ==
    /\ mode \in {"sync", "async"}
    /\ \E c \in net.open, kind \in ReplyKinds :
          /\ net.pending[c] # <<>>
          /\ net.eof[c] = "no"
          /\ net' = NetPeer(net, c, [kind |-> kind, cut |-> -1, end |-> "no"])
    /\ UNCHANGED <<mode, rcon, arcon, scope, ops, last, stale, codecVars, appVars>>

----------------------------------------------------------------------------
(* The codec on its own: build, then decode what build returned *)

CodecIds == {-1, 0, 1, 255, 256, 65536, 16777216, INT32_MAX}

CodecTypes == {SERVERDATA_RESPONSE_VALUE, SERVERDATA_EXECCOMMAND, SERVERDATA_AUTH}

\* code points: NUL, "A", DEL, and one that is not ASCII
CodecChars == {0, 65, 127, 233}

RECURSIVE SeqsUpTo(_, _)
SeqsUpTo(S, k) ==
    IF k = 0 THEN {<<>>}
    ELSE LET shorter == SeqsUpTo(S, k - 1)
         IN  shorter \cup {Append(s, x) : s \in shorter, x \in S}

\* "secret"
Secret == <<115, 101, 99, 114, 101, 116>>

CodecBodies == SeqsUpTo(CodecChars, MaxLen) \cup {Secret}

\* integers that are no packet type of the protocol
CodecOtherTypes == {-1, 1, 7}

\* values that are no int, and values that are neither str nor bytes (12345)
CodecNonInts == {PyNone, PyFloat, PyStr(<<49>>)}

CodecNonData == {PyNone, PyFloat, PyInt(12345)}

CodecArgs ==
    [req_id : {PyInt(i) : i \in CodecIds} \cup CodecNonInts,
     packet_type : {PyInt(t) : t \in CodecTypes \cup CodecOtherTypes} \cup CodecNonInts,
     data : {PyStr(b) : b \in CodecBodies} \cup {PyBytes(b) : b \in CodecBodies}
            \cup CodecNonData]

NoArgs == [req_id |-> PyInt(0), packet_type |-> PyInt(0), data |-> PyStr(<<>>)]

NoOut == [stage |-> "args", built |-> [raised |-> "", bytes |-> <<>>], decoded |-> <<>>]

Build ==
    /\ mode = "codec" /\ cout.stage = "args"
    /\ cout' = [cout EXCEPT !.stage = "built",
                            !.built = Packet_build(cin.req_id, cin.packet_type, cin.data)]
    /\ UNCHANGED <<mode, cin, wire, sessionVars, appVars>>

Decode ==
    /\ mode = "codec" /\ cout.stage = "built" /\ cout.built.raised = ""
    /\ cout' = [cout EXCEPT !.stage = "decoded", !.decoded = Packet_decode(cout.built.bytes)]
    /\ UNCHANGED <<mode, cin, wire, sessionVars, appVars>>

----------------------------------------------------------------------------
(* The codec on what arrives: read_length and decode of any buffer *)

\* the first four bytes of a buffer: 0, 14, -1, the least and the largest int
WireLengths ==
    {<<0, 0, 0, 0>>, <<14, 0, 0, 0>>, <<255, 255, 255, 255>>, <<0, 0, 0, 128>>,
     <<255, 255, 255, 127>>}

\* the id and the type: 1, -1; 0, 2
WireIds == {<<1, 0, 0, 0>>, <<255, 255, 255, 255>>}

WireTypes == {<<0, 0, 0, 0>>, <<2, 0, 0, 0>>}

\* the body: ASCII or not
WireBodies == SeqsUpTo(CodecChars \cup {255}, MaxLen)

\* the last two bytes: the pad, or anything else
WirePads == {<<0, 0>>, <<255, 255>>}

WireFrames ==
    {l \o i \o t \o b \o p :
        l \in WireLengths, i \in WireIds, t \in WireTypes, b \in WireBodies, p \in WirePads}

\* b"\xff" * 20
Wire20 == [k \in 1..20 |-> 255]

\* every frame and every prefix of one, down to the empty buffer
WireBuffers == {Take(f, k) : f \in WireFrames, k \in 0..(14 + MaxLen)} \cup {Wire20}

\* what a caller can hand over: bytes, and values that are no bytes
WireValues ==
    {PyBytes(b) : b \in WireBuffers}
    \cup {PyNone, PyStr(<<>>), PyStr(<<49, 52>>), PyStr([k \in 1..14 |-> 48])}

NoWire ==
    [data |-> PyBytes(<<>>), done |-> {},
     read_length |-> [raised |-> "", ret |-> 0], decode |-> [raised |-> "", ret |-> <<>>]]

ReadLength ==
    /\ mode = "wire" /\ "read_length" \notin wire.done
    /\ wire' = [wire EXCEPT !.done = @ \cup {"read_length"},
                            !.read_length = Packet_read_length_call(wire.data)]
    /\ UNCHANGED <<mode, cin, cout, sessionVars, appVars>>

DecodeWire ==
    /\ mode = "wire" /\ "decode" \notin wire.done
    /\ wire' = [wire EXCEPT !.done = @ \cup {"decode"},
                            !.decode = Packet_decode_call(wire.data)]
    /\ UNCHANGED <<mode, cin, cout, sessionVars, appVars>>

----------------------------------------------------------------------------
(* gui.RconGUI: the Tk main thread, the worker threads of send_command and
   the auto_refresh timers, as callers of one Rcon (src/mcrconpy/gui.py) *)

\* Rcon.command(cmd) up to and with sendall(): it returns None before it
\* blocks (sent is FALSE), or the request is on the wire and recv() is next
Rcon_command_send(self, nt, cmd, env) ==
    IF Rcon_command_refuses(self)
    THEN [sent |-> FALSE, net |-> nt, raised |-> "", fail |-> "", req_id |-> <<>>]
    ELSE
    Let1(Packet_build(PyInt(env.req_id), PyInt(SERVERDATA_EXECCOMMAND), cmd), LAMBDA packet :
    IF packet.raised # ""
    THEN [sent |-> FALSE, net |-> nt, raised |-> packet.raised, fail |-> "", req_id |-> <<>>]
    ELSE IF env.send = "fail"
    THEN [sent |-> FALSE, net |-> nt, raised |-> Rcon_command_except("OSError"),
          fail |-> "send", req_id |-> <<>>]
    ELSE [sent |-> TRUE,
          net |-> NetSend(nt, self.socket, packet.bytes, env.req_id, SERVERDATA_EXECCOMMAND),
          raised |-> "", fail |-> "", req_id |-> <<env.req_id>>])

\* Rcon.command(cmd) from the first recv() on
Rcon_command_recv(self, nt, req_id) ==
    Let1(Rcon__recv_exact(self, nt, 4), LAMBDA r1 :
    IF r1.raised # ""
    THEN Did(self, r1.net, Rcon_command_except(r1.raised), PyNone, req_id, <<>>,
             r1.fail, None)
    ELSE IF r1.data = <<>>
    THEN Did(self, r1.net, Rcon_command_except("SocketConnectionError"), PyNone,
             req_id, <<>>, r1.fail, None)
    ELSE
    Let1(Rcon__recv_exact(self, r1.net, Packet_read_length(r1.data)), LAMBDA r2 :
    IF r2.raised # ""
    THEN Did(self, r2.net, Rcon_command_except(r2.raised), PyNone, req_id, <<>>,
             Fail2(r1.fail, r2.fail), None)
    ELSE
    Let1(Packet_decode(r1.data \o r2.data), LAMBDA d :
    IF d = <<>>
    THEN Did(self, r2.net, Rcon_command_except("ValueError"), PyNone, req_id, <<>>,
             Fail2(r1.fail, r2.fail), None)
    ELSE Did(self, r2.net, "", d[4], req_id, <<d[2]>>, Fail2(r1.fail, r2.fail), None))))

Threads == 1..MaxThreads

\* a worker thread: where it is in run_cmd ("none": no such thread, "start":
\* started, "sent": inside command(), blocked in recv), the socket of the Rcon
\* whose command() it is in, and the request id it sent
NoWorker == [pc |-> "none", sock |-> None, req_id |-> <<>>]

\* self.rcon_client is not None (the object itself is the variable rcon), the
\* state of the Send button and the command entry, the refresh counters, the
\* auto_refresh callbacks scheduled with root.after; the main thread: the
\* method it is in (pc), whether it is blocked in recv inside command() (wait)
\* and the request id it sent; the worker threads; and of the handler that ran
\* last: its name, the exception connect() or login() raised in it, the one
\* that left it uncaught, the message box it showed; the refreshes in a row
\* that got no response (streak), and the events handled (events)
GuiInit ==
    [rcon_client |-> FALSE, send_enabled |-> FALSE,
     _refresh_failures |-> 0, _refresh_interval |-> 5000, timers |-> 0,
     pc |-> "idle", wait |-> FALSE, req_id |-> <<>>,
     workers |-> [w \in Threads |-> NoWorker],
     handler |-> "", raised |-> "", escaped |-> "", shown |-> "",
     streak |-> 0, events |-> 0]

\* except (OSError, ConnectionError, TimeoutError): what passes it
gui_except(exc) ==
    IF exc \in {"OSError", "ConnectionError", "TimeoutError", "ConnectionResetError"}
    THEN "" ELSE exc

\* what the socket layer does to the sendall() of a command(); the request
\* id drawn is 0
SendEnvs == {[NoEnv EXCEPT !.send = "fail"], NoEnv}

\* what the peer does while a command() of the GUI waits: answer, close
GuiSrvBehaviours ==
    {b \in SrvBehaviours : b.cut = -1 /\ b.kind \in {"echo", "none"} /\ b.end # "rst"}

\* how connect() and login() end in connect_to_server()
ConnectEnvs ==
    RefusedEnvs \cup {[NoEnv EXCEPT !.send = "fail"]}
    \cup {[NoEnv EXCEPT !.srv = b] :
              b \in {x \in SrvBehaviours : x.cut = -1 /\ x.kind \in {"echo", "authfail", "none"}}}

\* an Rcon object nothing refers to any more is finalized and its socket with
\* it: the descriptor is closed, what the connection held is gone
NetDrop(nt, c) ==
    IF c = None THEN nt
    ELSE [nt EXCEPT !.open = @ \ {c}, !.inbuf[c] = <<>>, !.pending[c] = <<>>,
                    !.eof[c] = "no", !.nreq[c] = 0]

\* a worker thread is inside command() of the Rcon that holds socket c
HeldByWorker(g, c) == \E w \in Threads : g.workers[w].pc = "sent" /\ g.workers[w].sock = c

\* self.rcon_client = ...: the object it referred to is dropped
DropClient(g, self, nt) ==
    IF g.rcon_client /\ ~HeldByWorker(g, self.socket) THEN NetDrop(nt, self.socket) ELSE nt

\* self.rcon_client = RconPy(...); self.rcon_client.connect();
\* self.rcon_client.login(): the first exception ends the three
connect_and_login(nt, env) ==
    Let1(Rcon_connect(RconInit, nt, env), LAMBDA c :
    IF c.raised # "" THEN c ELSE Rcon_login(c.self, c.net, env))

\* connect_to_server() with valid entries, up to fetch_player_list():
\* RconPy(...), connect(), login(), showinfo, the controls, save_config (see
\* SpecFs for it); is_login() is True whenever login() returned
connect_to_server(g, self, nt, env) ==
    Let1(connect_and_login(DropClient(g, self, nt), env), LAMBDA r :
    [rcon |-> IF r.raised # "" /\ gui_except(r.raised) = "" THEN RconInit ELSE r.self,
     net |-> IF r.raised # "" /\ gui_except(r.raised) = ""
             THEN NetDrop(r.net, r.self.socket) ELSE r.net,
     gui |->
        IF r.raised = ""
        THEN [g EXCEPT !.rcon_client = TRUE, !.send_enabled = TRUE,
                       !.pc = "fetch_player_list", !.handler = "connect_to_server",
                       !.raised = "", !.escaped = "", !.shown = "info"]
        ELSE IF gui_except(r.raised) = ""
        THEN [g EXCEPT !.rcon_client = FALSE,
                       !.handler = "connect_to_server",
                       !.raised = r.raised, !.escaped = "", !.shown = "error"]
        ELSE [g EXCEPT !.rcon_client = TRUE,
                       !.handler = "connect_to_server",
                       !.raised = r.raised, !.escaped = r.raised, !.shown = ""]])

\* auto_refresh() once fetch_player_list() has returned (exc = "") or raised,
\* and root.after(self._refresh_interval, self.auto_refresh); answered: the
\* command("list") inside returned a response
auto_refresh_done(g, exc, answered) ==
    LET k == g._refresh_failures + 1
        backoff == IF 5000 * (2 ^ k) < 60000 THEN 5000 * (2 ^ k) ELSE 60000
    IN  [g EXCEPT !._refresh_failures = IF exc = "" THEN 0 ELSE k,
                  !._refresh_interval = IF exc = "" THEN 5000 ELSE backoff,
                  !.timers = @ + 1, !.pc = "idle", !.wait = FALSE, !.req_id = <<>>,
                  !.handler = "auto_refresh", !.raised = "", !.escaped = exc,
                  !.shown = "", !.streak = IF answered THEN 0 ELSE @ + 1]

\* auto_refresh() when not connected or the window is not viewable
auto_refresh_skip(g) ==
    [g EXCEPT !.timers = @ + 1, !.pc = "idle", !.handler = "auto_refresh",
              !.raised = "", !.escaped = "", !.shown = ""]

GuiUnchanged == UNCHANGED <<mode, arcon, scope, ops, last, stale, codecVars, tasks, pair, fs, audit, user, clock>>

\* the user presses Connect
ConnectToServer ==
    /\ mode = "gui" /\ gui.pc = "idle" /\ gui.events < MaxEvents
    /\ net.nconn < MaxConns
    /\ \/ \* the port is no integer, the address or the password is empty
          /\ gui' = [gui EXCEPT !.handler = "connect_to_server", !.raised = "",
                                !.escaped = "", !.shown = "warning", !.events = @ + 1]
          /\ UNCHANGED <<rcon, net>>
       \/ \E env \in ConnectEnvs :
          \E r \in {connect_to_server(gui, rcon, net, env)} :
             /\ gui' = [r.gui EXCEPT !.events = @ + 1]
             /\ rcon' = r.rcon
             /\ net' = NetReturn(r.net)
    /\ GuiUnchanged

\* fetch_player_list() and fetch_datapacks() in connect_to_server(): the
\* command() of each, up to sendall() and from recv() on
FetchCall ==
    /\ mode = "gui" /\ gui.pc \in {"fetch_player_list", "fetch_datapacks"} /\ ~gui.wait
    /\ \E env \in SendEnvs :
       \E s \in {Rcon_command_send(rcon, net, Cmd, env)} :
          /\ net' = s.net
          /\ gui' = IF s.sent
                    THEN [gui EXCEPT !.wait = TRUE, !.req_id = s.req_id]
                    ELSE [gui EXCEPT !.pc = IF gui.pc = "fetch_player_list"
                                            THEN "fetch_datapacks" ELSE "auto_refresh"]
    /\ UNCHANGED rcon
    /\ GuiUnchanged

FetchReturn ==
    /\ mode = "gui" /\ gui.pc \in {"fetch_player_list", "fetch_datapacks"} /\ gui.wait
    /\ \E r \in {Rcon_command_recv(rcon, net, gui.req_id)} :
          /\ net' = NetReturn(r.net)
          /\ gui' = [gui EXCEPT !.wait = FALSE, !.req_id = <<>>,
                                !.pc = IF gui.pc = "fetch_player_list"
                                       THEN "fetch_datapacks" ELSE "auto_refresh"]
    /\ UNCHANGED rcon
    /\ GuiUnchanged

\* auto_refresh(), called by connect_to_server() or by a timer: up to the
\* sendall() of fetch_player_list()
AutoRefreshCall ==
    /\ mode = "gui" /\ ~gui.wait
    /\ \/ gui.pc = "auto_refresh"
       \/ gui.pc = "idle" /\ gui.timers > 0 /\ gui.events < MaxEvents
    /\ LET g == IF gui.pc = "idle"
                THEN [gui EXCEPT !.timers = @ - 1, !.events = @ + 1, !.pc = "auto_refresh"]
                ELSE gui
       IN  \/ \E viewable \in BOOLEAN :
                /\ ~(g.rcon_client /\ viewable)
                /\ gui' = auto_refresh_skip(g)
                /\ net' = net
           \/ /\ g.rcon_client
              /\ \E env \in SendEnvs :
                 \E s \in {Rcon_command_send(rcon, net, Cmd, env)} :
                    /\ net' = s.net
                    /\ gui' = IF s.sent
                              THEN [g EXCEPT !.wait = TRUE, !.req_id = s.req_id]
                              ELSE auto_refresh_done(g, gui_except(s.raised), FALSE)
    /\ UNCHANGED rcon
    /\ GuiUnchanged

\* auto_refresh() from the recv() of fetch_player_list() on
AutoRefreshReturn ==
    /\ mode = "gui" /\ gui.pc = "auto_refresh" /\ gui.wait
    /\ \E r \in {Rcon_command_recv(rcon, net, gui.req_id)} :
          /\ net' = NetReturn(r.net)
          /\ gui' = auto_refresh_done(gui, gui_except(r.raised), r.ret # PyNone)
    /\ UNCHANGED rcon
    /\ GuiUnchanged

\* the user presses Send or Return: send_command() starts a thread
SendCommand ==
    /\ mode = "gui" /\ gui.pc = "idle" /\ gui.send_enabled /\ gui.events < MaxEvents
    /\ IF ~gui.rcon_client
       THEN gui' = [gui EXCEPT !.handler = "send_command", !.raised = "",
                               !.escaped = "", !.shown = "warning", !.events = @ + 1]
       ELSE \E w \in Threads :
               /\ gui.workers[w].pc = "none"
               /\ \A v \in Threads : v < w => gui.workers[v].pc # "none"
               /\ gui' = [gui EXCEPT !.handler = "send_command", !.raised = "",
                                     !.escaped = "", !.shown = "", !.events = @ + 1,
                                     !.workers[w] = [NoWorker EXCEPT !.pc = "start"]]
    /\ UNCHANGED <<rcon, net>>
    /\ GuiUnchanged

\* run_cmd() in a worker thread, up to the sendall() of command()
WorkerCall ==
    /\ mode = "gui"
    /\ \E w \in Threads :
         /\ gui.workers[w].pc = "start"
         /\ IF ~gui.rcon_client
            THEN gui' = [gui EXCEPT !.workers[w] = NoWorker] /\ net' = net
            ELSE \E env \in SendEnvs :
                 \E s \in {Rcon_command_send(rcon, net, Cmd, env)} :
                    /\ net' = s.net
                    /\ gui' = IF s.sent
                              THEN [gui EXCEPT !.workers[w] =
                                       [pc |-> "sent", sock |-> rcon.socket, req_id |-> s.req_id]]
                              ELSE [gui EXCEPT !.workers[w] = NoWorker]
    /\ UNCHANGED rcon
    /\ GuiUnchanged

\* run_cmd() from the recv() of command() on
WorkerReturn ==
    /\ mode = "gui"
    /\ \E w \in Threads :
         /\ gui.workers[w].pc = "sent"
         /\ \E r \in {Rcon_command_recv([rcon EXCEPT !.socket = gui.workers[w].sock], net,
                                        gui.workers[w].req_id)} :
               /\ gui' = [gui EXCEPT !.workers[w] = NoWorker]
               /\ net' = IF gui.workers[w].sock # rcon.socket
                            /\ ~HeldByWorker(gui', gui.workers[w].sock)
                         THEN NetReturn(NetDrop(r.net, gui.workers[w].sock))
                         ELSE NetReturn(r.net)
    /\ UNCHANGED rcon
    /\ GuiUnchanged

\* while a command() waits, the server answers the oldest request on its
\* connection, or ends the connection
Server ==
    /\ mode = "gui"
    /\ \E c \in {gui.workers[w].sock : w \in {v \in Threads : gui.workers[v].pc = "sent"}}
                \cup (IF gui.wait THEN {rcon.socket} ELSE {}) :
       \E b \in GuiSrvBehaviours :
         /\ net.eof[c] = "no"
         /\ IF b.kind = "none" THEN b.end # "no" ELSE net.pending[c] # <<>>
         /\ net' = NetPeer(net, c, b)
    /\ UNCHANGED <<rcon, gui>>
    /\ GuiUnchanged

----------------------------------------------------------------------------
(* gui.RconGUI.save_config and load_config: the configuration file
   (src/mcrconpy/gui.py), one system call at a time *)

\* a file: the configuration it holds (the v-th one saved, 0 for the one found
\* at the start) and how many of its MaxChunks parts are on disk
NoFile == [exists |-> FALSE, v |-> 0, n |-> 0]

File(v, n) == [exists |-> TRUE, v |-> v, n |-> n]

\* the file holds a whole serialized configuration
Complete(f) == f.exists /\ f.n = MaxChunks

\* CONFIG_FILE, the temporary file of the call in progress, temporary files
\* left behind, the position in save_config, the file CONFIG_FILE was when
\* the call began, the number of the configuration being saved, how the last
\* call ended, and what load_config returned last
FsInit ==
    [config |-> NoFile, temp |-> NoFile, stray |-> 0, pc |-> "idle",
     prev |-> NoFile, new |-> 0, result |-> "", loaded |-> NoFile]

\* save_config up to tempfile.mkstemp(): OSError leaves no temp_path
save_config_mkstemp(s, ok) ==
    IF ok
    THEN [s EXCEPT !.pc = "write", !.temp = File(s.new + 1, 0),
                   !.prev = s.config, !.new = s.new + 1, !.result = ""]
    ELSE [s EXCEPT !.pc = "idle", !.prev = s.config, !.new = s.new + 1,
                   !.result = "failed"]

\* save_config writing the serialized configuration over CONFIG_FILE itself
save_config_write_in_place(s, ok) ==
    IF ok
    THEN [s EXCEPT !.config = File(s.new, s.temp.n + 1),
                   !.temp = File(s.new, s.temp.n + 1),
                   !.pc = IF s.temp.n + 1 = MaxChunks THEN "replace" ELSE "write"]
    ELSE [s EXCEPT !.pc = "cleanup"]

\* f.write(...) and the close of the with block: one part of the serialized
\* configuration reaches the temporary file, or the write fails
save_config_write(s, ok) ==
    IF ok
    THEN [s EXCEPT !.temp = File(s.new, s.temp.n + 1),
                   !.pc = IF s.temp.n + 1 = MaxChunks THEN "replace" ELSE "write"]
    ELSE [s EXCEPT !.pc = "cleanup"]

\* os.replace(temp_path, CONFIG_FILE)
save_config_replace(s, ok) ==
    IF ok
    THEN [s EXCEPT !.config = s.temp, !.temp = NoFile, !.pc = "idle",
                   !.result = "saved"]
    ELSE [s EXCEPT !.pc = "cleanup"]

\* except OSError: log, os.remove(temp_path), whose own OSError is ignored
save_config_except(s, ok) ==
    IF ok
    THEN [s EXCEPT !.temp = NoFile, !.pc = "idle", !.result = "failed"]
    ELSE [s EXCEPT !.temp = NoFile, !.pc = "idle", !.result = "failed",
                   !.stray = s.stray + 1]

\* load_config(): {} (here NoFile) when the file is missing or does not parse
load_config(s) ==
    [s EXCEPT !.loaded = IF Complete(s.config) THEN s.config ELSE NoFile]

SaveConfigMkstemp ==
    /\ mode = "fs" /\ fs.pc = "idle" /\ fs.new < MaxOps
    /\ \E ok \in BOOLEAN : fs' = save_config_mkstemp(fs, ok)
    /\ UNCHANGED <<mode, sessionVars, codecVars, tasks, pair, gui, audit, user, clock>>

SaveConfigWrite ==
    /\ mode = "fs" /\ fs.pc = "write"
    /\ \E ok \in BOOLEAN : fs' = save_config_write(fs, ok)
    /\ UNCHANGED <<mode, sessionVars, codecVars, tasks, pair, gui, audit, user, clock>>

SaveConfigReplace ==
    /\ mode = "fs" /\ fs.pc = "replace"
    /\ \E ok \in BOOLEAN : fs' = save_config_replace(fs, ok)
    /\ UNCHANGED <<mode, sessionVars, codecVars, tasks, pair, gui, audit, user, clock>>

SaveConfigExcept ==
    /\ mode = "fs" /\ fs.pc = "cleanup"
    /\ \E ok \in BOOLEAN : fs' = save_config_except(fs, ok)
    /\ UNCHANGED <<mode, sessionVars, codecVars, tasks, pair, gui, audit, user, clock>>

\* a reader of the file, at any instant: this process at its start, another one
LoadConfig ==
    /\ mode = "fs"
    /\ fs' = load_config(fs)
    /\ UNCHANGED <<mode, sessionVars, codecVars, tasks, pair, gui, audit, user, clock>>

----------------------------------------------------------------------------
(* audit.Audit: the JSONL audit log (src/mcrconpy/audit.py) *)

\* a Python dict: its items in insertion order, each <<key, value>>
PyDict(items) == [t |-> "dict", n |-> 0, s |-> items]

\* a serializer that writes the line feed of a str as it is
json_escape_raw(c) ==
    IF c = 34 THEN <<92, 34>>
    ELSE IF c = 92 THEN <<92, 92>>
    ELSE <<c>>

\* the escape of one character of a str in json.dumps and orjson.dumps:
\* the double quote, the backslash, the line feed (as \n); ASCII else as it is
json_escape(c) ==
    IF c = 34 THEN <<92, 34>>
    ELSE IF c = 92 THEN <<92, 92>>
    ELSE IF c = 10 THEN <<92, 110>>
    ELSE <<c>>

RECURSIVE json_quote_from(_, _)
json_quote_from(str, i) ==
    IF i > Len(str) THEN <<34>>
    ELSE json_escape(str[i]) \o json_quote_from(str, i + 1)

\* a str as a JSON string
json_quote(v) == <<34>> \o json_quote_from(v.s, 1)

RECURSIVE json_items(_, _, _)
json_items(items, i, orjson) ==
    IF i > Len(items) THEN <<>>
    ELSE (IF i > 1 THEN (IF orjson THEN <<44>> ELSE <<44, 32>>) ELSE <<>>)
         \o json_quote(items[i][1])
         \o (IF orjson THEN <<58>> ELSE <<58, 32>>)
         \o json_quote(items[i][2])
         \o json_items(items, i + 1, orjson)

\* orjson.dumps(data), or json.dumps(data).encode("utf-8"), of a dict of str
\* to str: json.dumps separates with ", " and ": ", orjson with "," and ":"
dumps(data, orjson) == <<123>> \o json_items(data.s, 1, orjson) \o <<125>>

JsonFail == [ok |-> FALSE, v |-> PyNone, i |-> 0]

\* the position of the first character from i on that is no white space of JSON
RECURSIVE json_skip(_, _)
json_skip(b, i) ==
    IF i <= Len(b) /\ b[i] \in {9, 10, 13, 32} THEN json_skip(b, i + 1) ELSE i

\* the characters of a JSON string from position i, after the opening quote
RECURSIVE json_string(_, _, _)
json_string(b, i, acc) ==
    IF i > Len(b) THEN JsonFail
    ELSE IF b[i] = 34 THEN [ok |-> TRUE, v |-> PyStr(acc), i |-> i + 1]
    ELSE IF b[i] = 92 THEN
        IF i + 1 > Len(b) THEN JsonFail
        ELSE IF b[i + 1] \in {34, 92, 47}
             THEN json_string(b, i + 2, Append(acc, b[i + 1]))
        ELSE IF b[i + 1] = 110 THEN json_string(b, i + 2, Append(acc, 10))
        ELSE IF b[i + 1] = 116 THEN json_string(b, i + 2, Append(acc, 9))
        ELSE IF b[i + 1] = 114 THEN json_string(b, i + 2, Append(acc, 13))
        ELSE IF b[i + 1] = 98 THEN json_string(b, i + 2, Append(acc, 8))
        ELSE IF b[i + 1] = 102 THEN json_string(b, i + 2, Append(acc, 12))
        ELSE JsonFail
    ELSE IF b[i] < 32 \/ b[i] > 127 THEN JsonFail
    ELSE json_string(b, i + 1, Append(acc, b[i]))

\* the digits of a JSON number from position i
RECURSIVE json_number(_, _, _)
json_number(b, i, acc) ==
    IF i <= Len(b) /\ b[i] \in 48..57
    THEN json_number(b, i + 1, 10 * acc + (b[i] - 48))
    ELSE [ok |-> TRUE, v |-> PyInt(acc), i |-> i]

RECURSIVE json_value(_, _)
RECURSIVE json_members(_, _, _)
\* the JSON value that starts at position i: an object, a string, a number
\* without sign, fraction or exponent
json_value(b, i) ==
    IF i > Len(b) THEN JsonFail
    ELSE IF b[i] = 34 THEN json_string(b, i + 1, <<>>)
    ELSE IF b[i] = 123 THEN
        LET j == json_skip(b, i + 1) IN
        IF j <= Len(b) /\ b[j] = 125
        THEN [ok |-> TRUE, v |-> PyDict(<<>>), i |-> j + 1]
        ELSE json_members(b, j, <<>>)
    ELSE IF b[i] \in 49..57 THEN json_number(b, i, 0)
    ELSE IF b[i] = 48 THEN [ok |-> TRUE, v |-> PyInt(0), i |-> i + 1]
    ELSE JsonFail

\* the members of an object from the key at position i
json_members(b, i, acc) ==
    IF i > Len(b) \/ b[i] # 34 THEN JsonFail
    ELSE
      LET k == json_string(b, i + 1, <<>>) IN
      IF ~k.ok THEN JsonFail
      ELSE
        LET c == json_skip(b, k.i) IN
        IF c > Len(b) \/ b[c] # 58 THEN JsonFail
        ELSE
          LET v == json_value(b, json_skip(b, c + 1)) IN
          IF ~v.ok THEN JsonFail
          ELSE
            LET e == json_skip(b, v.i)
                items == Append(acc, <<k.v, v.v>>)
            IN  IF e > Len(b) THEN JsonFail
                ELSE IF b[e] = 125
                     THEN [ok |-> TRUE, v |-> PyDict(items), i |-> e + 1]
                ELSE IF b[e] = 44
                     THEN json_members(b, json_skip(b, e + 1), items)
                ELSE JsonFail

\* orjson.loads(line), json.loads(line.decode("utf-8")): ok is FALSE for the
\* ValueError and the UnicodeDecodeError
loads(b) ==
    IF \E i \in 1..Len(b) : b[i] > 127 THEN JsonFail
    ELSE LET v == json_value(b, json_skip(b, 1)) IN
         IF v.ok /\ json_skip(b, v.i) > Len(b) THEN v ELSE JsonFail

\* the white space bytes.strip() removes
BytesWS == {9, 10, 11, 12, 13, 32}

RECURSIVE bytes_lstrip(_)
bytes_lstrip(b) ==
    IF b # <<>> /\ b[1] \in BytesWS THEN bytes_lstrip(Tail(b)) ELSE b

RECURSIVE bytes_rstrip(_)
bytes_rstrip(b) ==
    IF b # <<>> /\ b[Len(b)] \in BytesWS
    THEN bytes_rstrip(SubSeq(b, 1, Len(b) - 1)) ELSE b

bytes_strip(b) == bytes_rstrip(bytes_lstrip(b))

\* the lines a binary file iterates over: each up to and with its line feed
RECURSIVE file_lines(_, _)
file_lines(b, cur) ==
    IF b = <<>> THEN (IF cur = <<>> THEN <<>> ELSE <<cur>>)
    ELSE IF b[1] = 10 THEN <<Append(cur, 10)>> \o file_lines(Tail(b), <<>>)
    ELSE file_lines(Tail(b), Append(cur, b[1]))

\* the audit file, whether this process has orjson, and the history: the
\* records of the to_save calls that returned, whether a to_save that raised
\* left a part of its record in the file, the last call and what it did
AuditInit ==
    [exists |-> FALSE, file |-> <<>>, orjson |-> FALSE,
     saved |-> <<>>, torn |-> FALSE, n |-> 0,
     last |-> "", raised |-> "", loaded |-> <<>>, before |-> <<>>]

\* the records the callers save: {"k": v}, v with a quote, a backslash, a
\* line feed; and the empty dict
AuditRecords ==
    {PyDict(<<>>)}
    \cup {PyDict(<< <<PyStr(<<107>>), PyStr(v)>> >>) : v \in {<<97>>, <<34, 92>>, <<97, 10>>}}

\* what the file system does to a to_save: nothing, a failure of mkdir or of
\* open ("open": nothing written), a failure of the write with cut bytes on
\* disk
AuditEnvs(serialized) ==
    {[fail |-> "", cut |-> 0], [fail |-> "open", cut |-> 0]}
    \cup {[fail |-> "write", cut |-> c] : c \in {1, Len(serialized)}}

\* Audit.to_save(data)
Audit_to_save(a, data, env) ==
    LET serialized == dumps(data, a.orjson)
        line == serialized \o <<10>>
    IN  IF env.fail = "open"
        THEN [a EXCEPT !.n = a.n + 1, !.last = "to_save",
                       !.raised = "OSError", !.before = a.file]
        ELSE IF env.fail = "write"
        THEN [a EXCEPT !.exists = TRUE, !.file = a.file \o Take(line, env.cut),
                       !.torn = TRUE, !.n = a.n + 1, !.last = "to_save",
                       !.raised = "OSError", !.before = a.file]
        ELSE [a EXCEPT !.exists = TRUE, !.file = a.file \o line,
                       !.saved = Append(a.saved, data), !.n = a.n + 1,
                       !.last = "to_save", !.raised = "", !.before = a.file]

\* Audit.to_load_iter(): the records it yields
RECURSIVE Audit_to_load_iter(_)
Audit_to_load_iter(lines) ==
    IF lines = <<>> THEN <<>>
    ELSE
      LET line_bytes == bytes_strip(Head(lines))
          record == loads(line_bytes)
          rest == Audit_to_load_iter(Tail(lines))
      IN  IF line_bytes = <<>> THEN rest
          ELSE IF record.ok /\ record.v.t = "dict" THEN <<record.v>> \o rest
          ELSE rest

\* Audit.to_load(): list(Audit.to_load_iter()); unreadable is the OSError of
\* open(), after which to_load_iter returns
Audit_to_load(a, unreadable) ==
    [a EXCEPT !.last = IF unreadable THEN "to_load-oserror" ELSE "to_load",
              !.raised = "", !.before = a.file,
              !.loaded = IF ~a.exists \/ unreadable THEN <<>>
                         ELSE Audit_to_load_iter(file_lines(a.file, <<>>))]

\* lines written to the file by hand, as the tests do: no JSON, JSON that is
\* no dict, white space only, a byte that is no UTF-8
AuditGarbage ==
    {<<105, 110, 118, 97, 108, 105, 100, 32, 106, 115, 111, 110, 123>>,
     <<34, 97, 34>>, <<32, 32>>, <<123, 34, 107, 34, 58, 255, 125>>}

ToSave ==
    /\ mode = "audit" /\ audit.n < MaxLines
    /\ \E data \in AuditRecords :
         \E env \in AuditEnvs(dumps(data, audit.orjson)) :
            audit' = Audit_to_save(audit, data, env)
    /\ UNCHANGED <<mode, sessionVars, codecVars, tasks, pair, gui, fs, user, clock>>

ToLoad ==
    /\ mode = "audit"
    /\ \E unreadable \in BOOLEAN : audit' = Audit_to_load(audit, unreadable)
    /\ UNCHANGED <<mode, sessionVars, codecVars, tasks, pair, gui, fs, user, clock>>

\* a line is appended to the file by hand
WriteLine ==
    /\ mode = "audit" /\ audit.n < MaxLines
    /\ \E g \in AuditGarbage :
         audit' = [audit EXCEPT !.exists = TRUE, !.file = audit.file \o g \o <<10>>,
                                !.n = audit.n + 1, !.last = "write",
                                !.raised = "", !.before = audit.file]
    /\ UNCHANGED <<mode, sessionVars, codecVars, tasks, pair, gui, fs, user, clock>>

----------------------------------------------------------------------------
(* models.User: the session timing (src/mcrconpy/models.py) *)

\* a timestamp: the float get_timestamp() returns, in ticks of the model
PyTime(n) == [t |-> "float", n |-> n, s |-> <<>>]

\* User(): the dataclass defaults
User ==
    [is_login |-> FALSE, start_session |-> PyNone, end_session |-> PyNone,
     seconds_session |-> PyNone, _password |-> PyNone]

\* the object, the last method called on it ("User" for the constructor), its
\* argument, what it returned, and the password stored before it
UserInit ==
    [self |-> User, last |-> "User", arg |-> PyNone, ret |-> PyNone, before |-> PyNone]

\* utils.get_timestamp(): datetime.now(timezone.utc).timestamp()
get_timestamp == PyTime(clock)

\* User.active_session()
User_active_session(self) ==
    [self EXCEPT !.is_login = TRUE, !.start_session = get_timestamp]

\* User.calculate_duration()
User_calculate_duration(self) ==
    IF self.start_session # PyNone /\ self.end_session # PyNone
    THEN [self EXCEPT !.seconds_session = PyTime(self.end_session.n - self.start_session.n)]
    ELSE [self EXCEPT !.seconds_session = PyNone]

\* User.close_session()
User_close_session(self) ==
    User_calculate_duration([self EXCEPT !.is_login = FALSE, !.end_session = get_timestamp])

\* bool(v) of a str or None
truthy(v) == v.t = "str" /\ v.s # <<>>

\* set_password that stores every non-empty password and reports a change
User_set_password_always(self, passwd) ==
    IF truthy(passwd)
    THEN [self |-> [self EXCEPT !._password = passwd], ret |-> PyTrue]
    ELSE [self |-> self, ret |-> PyFalse]

\* User.set_password(passwd)
User_set_password(self, passwd) ==
    IF truthy(passwd) /\ passwd # self._password
    THEN [self |-> [self EXCEPT !._password = passwd], ret |-> PyTrue]
    ELSE [self |-> self, ret |-> PyFalse]

\* User.get_password()
User_get_password(self) == self._password

\* the passwords the callers set: empty, "a", "b"; and None
Passwords == {PyStr(<<>>), PyStr(<<97>>), PyStr(<<98>>), PyNone}

SetPassword ==
    /\ mode = "user"
    /\ \E passwd \in Passwords :
       \E r \in {User_set_password(user.self, passwd)} :
          user' = [self |-> r.self, last |-> "set_password", arg |-> passwd,
                   ret |-> r.ret, before |-> user.self._password]
    /\ UNCHANGED <<mode, sessionVars, codecVars, tasks, pair, gui, fs, audit, clock>>

ActiveSession ==
    /\ mode = "user"
    /\ user' = [UserInit EXCEPT !.self = User_active_session(user.self),
                                !.last = "active_session",
                                !.before = user.self._password]
    /\ UNCHANGED <<mode, sessionVars, codecVars, tasks, pair, gui, fs, audit, clock>>

CloseSession ==
    /\ mode = "user"
    /\ user' = [UserInit EXCEPT !.self = User_close_session(user.self),
                                !.last = "close_session",
                                !.before = user.self._password]
    /\ UNCHANGED <<mode, sessionVars, codecVars, tasks, pair, gui, fs, audit, clock>>

\* time passes
ClockTick ==
    /\ mode = "user" /\ clock < MaxTime
    /\ clock' = clock + 1
    /\ UNCHANGED <<mode, sessionVars, codecVars, tasks, pair, gui, fs, audit, user>>

\* the wall clock is set back: by the administrator, by a time synchronisation
ClockSet ==
    /\ mode = "user"
    /\ clock' \in {t \in 0..MaxTime : t < clock}
    /\ UNCHANGED <<mode, sessionVars, codecVars, tasks, pair, gui, fs, audit, user>>

----------------------------------------------------------------------------
(* Two command() calls on one AsyncRcon, each in an asyncio task. A task    *)
(* runs until it has to wait for bytes; the tasks share the StreamReader,   *)
(* which has one buffer and room for one waiting reader.                    *)

TaskIds == {1, 2}

\* pc: "new", "read4" and "readn" (suspended in readexactly), "done";
\* n: the number of the task's request on the connection
NoTask ==
    [pc |-> "new", req_id |-> <<>>, n |-> 0, prefix |-> <<>>, ret |-> PyNone,
     rid |-> <<>>, raised |-> ""]

\* waiter: the task StreamReader._waiter belongs to; flight: bytes the server
\* has written that have not arrived; apart: history, no call began while
\* another was in flight or after one was given up with its request written
TasksInit ==
    [task |-> [t \in TaskIds |-> NoTask], waiter |-> None, flight |-> <<>>, apart |-> TRUE]

Task_raise(tk, exc) == [tk EXCEPT !.pc = "done", !.raised = exc]

\* a call that decodes its reply and leaves it in the buffer
Task_read_body_peek(tk, t, nt, c, w) ==
    LET n == Packet_read_length(tk.prefix)
        d == Packet_decode(tk.prefix \o Take(nt.inbuf[c], n))
    IN  IF n <= Len(nt.inbuf[c]) /\ d # <<>>
        THEN [task |-> [tk EXCEPT !.pc = "done", !.ret = d[4], !.rid = <<d[2]>>],
              net |-> [nt EXCEPT !.inbuf[c] = tk.prefix \o @], waiter |-> w]
        ELSE [task |-> [tk EXCEPT !.pc = "readn"], net |-> nt, waiter |-> t]

\* _send_msg from data_bytes = await self._read_exact(length) on; readexactly
\* returns at once when the buffer holds n bytes, raises RuntimeError when
\* another coroutine is waiting for data, and waits otherwise
Task_read_body(tk, t, nt, c, w) ==
    LET n == Packet_read_length(tk.prefix)
        d == Packet_decode(tk.prefix \o Take(nt.inbuf[c], n))
    IN  IF n < 0
        THEN [task |-> Task_raise(tk, "ValueError"), net |-> nt, waiter |-> w]
        ELSE IF n <= Len(nt.inbuf[c])
        THEN [task |-> IF d = <<>> THEN Task_raise(tk, "ValueError")
                       ELSE IF d[2] = -1 THEN Task_raise(tk, "ServerAuthError")
                       ELSE [tk EXCEPT !.pc = "done", !.ret = d[4], !.rid = <<d[2]>>],
              net |-> [nt EXCEPT !.inbuf[c] = Drop(@, n)], waiter |-> w]
        ELSE IF nt.eof[c] # "no"
        THEN [task |-> Task_raise(tk, "SocketConnectionError"), net |-> nt, waiter |-> w]
        ELSE IF w # None
        THEN [task |-> Task_raise(tk, "RuntimeError"), net |-> nt, waiter |-> w]
        ELSE [task |-> [tk EXCEPT !.pc = "readn"], net |-> nt, waiter |-> t]

\* _send_msg from length_bytes = await self._read_exact(4) on
Task_read_length(tk, t, nt, c, w) ==
    IF 4 <= Len(nt.inbuf[c])
    THEN Task_read_body([tk EXCEPT !.prefix = Take(nt.inbuf[c], 4)], t,
                        [nt EXCEPT !.inbuf[c] = Drop(@, 4)], c, w)
    ELSE IF nt.eof[c] # "no"
    THEN [task |-> Task_raise(tk, "SocketConnectionError"), net |-> nt, waiter |-> w]
    ELSE IF w # None
    THEN [task |-> Task_raise(tk, "RuntimeError"), net |-> nt, waiter |-> w]
    ELSE [task |-> [tk EXCEPT !.pc = "read4"], net |-> nt, waiter |-> t]

\* command(cmd) in task t, up to its first wait: the guards, the request id,
\* the packet, write() and drain(), then the reads
Task_command(self, t, nt, w, cmd, req_id) ==
    IF AsyncRcon_command_refuses(self) \/ self._writer = None
    THEN [task |-> Task_raise(NoTask, "SocketConnectionError"), net |-> nt, waiter |-> w]
    ELSE IF AsyncRcon_command_too_long(cmd)
    THEN [task |-> Task_raise(NoTask, "ValueError"), net |-> nt, waiter |-> w]
    ELSE
    Let1(Packet_build(PyInt(req_id), PyInt(COMMAND), cmd), LAMBDA packet :
    IF packet.raised # ""
    THEN [task |-> Task_raise(NoTask, packet.raised), net |-> nt, waiter |-> w]
    ELSE Task_read_length([NoTask EXCEPT !.req_id = <<req_id>>, !.n = nt.nreq[self._writer]],
                          t, NetSend(nt, self._writer, packet.bytes, req_id, COMMAND),
                          self._reader, w))

InFlight(t) == tasks.task[t].pc \in {"read4", "readn"}

TasksUnchanged ==
    UNCHANGED <<mode, rcon, scope, ops, last, stale, codecVars, gui, fs, audit, user, clock,
                pair>>

\* await client.connect() before the tasks are made
TasksConnect ==
    /\ mode = "tasks" /\ net.nconn = 0
    /\ \E env \in {[NoEnv EXCEPT !.req_id = i, !.srv.kind = k] :
                      i \in ReqIds, k \in {"echo", "authfail"}} :
       \E r \in {AsyncRcon_connect(arcon, net, env)} :
          /\ arcon' = r.self
          /\ net' = NetReturn(r.net)
    /\ UNCHANGED tasks
    /\ TasksUnchanged

\* the event loop runs task t for the first time
TaskStart(t) ==
    /\ mode = "tasks" /\ net.nconn = 1 /\ tasks.task[t].pc = "new"
    /\ \E req_id \in ReqIds :
       \E r \in {Task_command(arcon, t, net, tasks.waiter, Cmd, req_id)} :
          /\ net' = NetReturn(r.net)
          /\ tasks' = [tasks EXCEPT
                 !.task[t] = r.task, !.waiter = r.waiter,
                 !.apart = @ /\ \A u \in TaskIds :
                                   /\ ~InFlight(u)
                                   /\ tasks.task[u].req_id # <<>> => tasks.task[u].raised = ""]
    /\ UNCHANGED arcon
    /\ TasksUnchanged

\* the event loop runs task t again after data has arrived
TaskResume(t) ==
    /\ mode = "tasks" /\ InFlight(t) /\ tasks.waiter # t
    /\ \E r \in {IF tasks.task[t].pc = "read4"
                 THEN Task_read_length(tasks.task[t], t, net, arcon._reader, tasks.waiter)
                 ELSE Task_read_body(tasks.task[t], t, net, arcon._reader, tasks.waiter)} :
          /\ net' = NetReturn(r.net)
          /\ tasks' = [tasks EXCEPT !.task[t] = r.task, !.waiter = r.waiter]
    /\ UNCHANGED arcon
    /\ TasksUnchanged

\* the timeout of wait_for expires: the read of task t is cancelled
TaskTimeout(t) ==
    /\ mode = "tasks" /\ InFlight(t)
    /\ tasks' = [tasks EXCEPT !.task[t] = Task_raise(@, "TimeoutError"),
                              !.waiter = IF @ = t THEN None ELSE @]
    /\ UNCHANGED <<arcon, net>>
    /\ TasksUnchanged

\* the server answers the oldest request it has
TasksServer ==
    /\ mode = "tasks"
    /\ \E c \in net.open :
          /\ net.pending[c] # <<>>
          /\ tasks' = [tasks EXCEPT !.flight = @ \o ReplyBytes(Head(net.pending[c]), "echo")]
          /\ net' = [net EXCEPT !.pending[c] = Tail(@)]
    /\ UNCHANGED arcon
    /\ TasksUnchanged

\* feed_data(): some of the bytes in flight arrive (a length prefix apart
\* from its frame, or all there is) and the waiting reader is woken
TasksFeed ==
    /\ mode = "tasks" /\ tasks.flight # <<>>
    /\ \E k \in {4, Len(tasks.flight)} :
          /\ k <= Len(tasks.flight)
          /\ net' = [net EXCEPT !.inbuf[arcon._reader] = @ \o Take(tasks.flight, k)]
          /\ tasks' = [tasks EXCEPT !.flight = Drop(@, k), !.waiter = None]
    /\ UNCHANGED arcon
    /\ TasksUnchanged

----------------------------------------------------------------------------
(* Two runs that differ only in the password: two User objects, two Rcon    *)
(* and two AsyncRcon objects, each pair given the same calls and the same   *)
(* environment, and what each run lets an observer see                      *)

Runs == {1, 2}

\* the passwords of the two runs: "pw", "px" and two that are not ASCII
Secrets == {PyStr(<<112, 119>>), PyStr(<<112, 120>>), PyStr(<<112, 233>>), PyStr(<<228, 119>>)}

\* User.to_dict(): start_session in microseconds, no password
User_to_dict(self) ==
    [start_session   |-> IF self.start_session = PyNone THEN PyNone
                         ELSE PyInt(self.start_session.n * 1000000),
     commands        |-> <<>>,
     is_login        |-> self.is_login,
     end_session     |-> self.end_session,
     seconds_session |-> self.seconds_session]

\* repr(User): the fields of the dataclass but _password (repr=False)
User_repr(self) ==
    [id |-> 1, commands |-> <<>>, is_login |-> self.is_login,
     start_session |-> self.start_session, end_session |-> self.end_session,
     seconds_session |-> self.seconds_session]

\* str(e) of the exception a call raised: the text the raise statement fixes
\* (here the exception and the failure met), but for the UnicodeEncodeError
\* of data.encode("ascii") in Packet.build, whose text names the first
\* character that is not ASCII and its position
Message(raised, fail, data) ==
    IF raised = "UnicodeEncodeError"
    THEN LET i == CHOOSE k \in 1..Len(data.s) :
                      data.s[k] >= 128 /\ \A j \in 1..(k - 1) : data.s[j] < 128
         IN  [text |-> "'ascii' codec can't encode character", ch |-> data.s[i],
              position |-> i - 1]
    ELSE [text |-> raised \o ":" \o fail, ch |-> 0, position |-> 0]

\* what an observer sees of a run after a call
Seen(u, raised, fail, data) ==
    [to_dict |-> User_to_dict(u), repr |-> User_repr(u), raised |-> raised,
     message |-> Message(raised, fail, data)]

PairInit ==
    [client |-> "user", password |-> [i \in Runs |-> PyStr(<<112, 119>>)],
     user |-> [i \in Runs |-> User],
     rcon |-> [i \in Runs |-> RconInit], arcon |-> [i \in Runs |-> ARconInit],
     net |-> [i \in Runs |-> NetInit], op |-> "none", calls |-> 0,
     seen |-> [i \in Runs |-> Seen(User, "", "", PyNone)]]

\* the environment of a call, the same in both runs
PairEnvs ==
    {NoEnv, [NoEnv EXCEPT !.conn = "refused"], [NoEnv EXCEPT !.send = "fail"]}
    \cup {[NoEnv EXCEPT !.srv.kind = k] : k \in {"echo", "authfail"}}

PairUnchanged ==
    UNCHANGED <<mode, sessionVars, codecVars, gui, fs, audit, user, clock, tasks>>

\* set_password(password), active_session() or close_session() on both users
PairUser ==
    /\ mode = "secret" /\ pair.client = "user" /\ pair.calls < MaxOps
    /\ \E op \in {"set_password", "active_session", "close_session"} :
          LET u == [i \in Runs |->
                      CASE op = "set_password" ->
                               User_set_password(pair.user[i], pair.password[i]).self
                        [] op = "active_session" -> User_active_session(pair.user[i])
                        [] OTHER -> User_close_session(pair.user[i])]
          IN  pair' = [pair EXCEPT !.user = u, !.op = op, !.calls = @ + 1,
                                   !.seen = [i \in Runs |-> Seen(u[i], "", "", PyNone)]]
    /\ PairUnchanged

\* connect(), login() or command() on both Rcon objects
PairSync ==
    /\ mode = "secret" /\ pair.client = "sync" /\ pair.calls < MaxOps
    /\ \E op \in {"connect", "login", "command"}, env \in PairEnvs :
          /\ op = "connect" => \A i \in Runs : pair.net[i].nconn < MaxConns
          /\ LET r == [i \in Runs |->
                         CASE op = "connect" -> Rcon_connect(pair.rcon[i], pair.net[i], env)
                           [] op = "login" -> Rcon_login(pair.rcon[i], pair.net[i], env)
                           [] OTHER -> Rcon_command(pair.rcon[i], pair.net[i], Cmd, env)]
             IN  pair' = [pair EXCEPT
                     !.rcon = [i \in Runs |-> r[i].self],
                     !.net = [i \in Runs |-> NetReturn(r[i].net)],
                     !.op = op, !.calls = @ + 1,
                     !.seen = [i \in Runs |-> Seen(pair.user[i], r[i].raised, r[i].fail,
                                                    pair.rcon[i].password)]]
    /\ PairUnchanged

\* connect() or command() on both AsyncRcon objects
PairAsync ==
    /\ mode = "secret" /\ pair.client = "async" /\ pair.calls < MaxOps
    /\ \E op \in {"connect", "command"}, env \in PairEnvs :
          /\ op = "connect" => \A i \in Runs : pair.net[i].nconn < MaxConns
          /\ LET r == [i \in Runs |->
                         CASE op = "connect" -> AsyncRcon_connect(pair.arcon[i], pair.net[i], env)
                           [] OTHER -> AsyncRcon_command(pair.arcon[i], pair.net[i], Cmd, env)]
             IN  pair' = [pair EXCEPT
                     !.arcon = [i \in Runs |-> r[i].self],
                     !.net = [i \in Runs |-> NetReturn(r[i].net)],
                     !.op = op, !.calls = @ + 1,
                     !.seen = [i \in Runs |-> Seen(pair.user[i], r[i].raised, r[i].fail,
                                                    pair.arcon[i].password)]]
    /\ PairUnchanged

----------------------------------------------------------------------------
(* Specifications *)

\* what the specifications of the protocol engine leave alone
AppInit ==
    /\ gui = GuiInit
    /\ fs = FsInit
    /\ audit = AuditInit
    /\ user = UserInit
    /\ clock = 1
    /\ tasks = TasksInit
    /\ pair = PairInit

SessionInit ==
    /\ rcon = RconInit
    /\ arcon = ARconInit
    /\ net = NetInit
    /\ scope = "none"
    /\ ops = 0
    /\ last = NoCall
    /\ stale = FALSE

Init ==
    /\ mode \in {"sync", "async"}
    /\ SessionInit
    /\ cin = NoArgs
    /\ cout = NoOut
    /\ wire = NoWire
    /\ AppInit

Next ==
    \/ SyncConnect \/ SyncLogin \/ SyncCommand \/ SyncClose \/ SyncEnter \/ SyncExit
    \/ AsyncConnect \/ AsyncCommand \/ AsyncClose \/ AsyncEnter \/ AsyncExit
    \/ ServerReply

Spec == Init /\ [][Next]_vars

InitCodec ==
    /\ mode = "codec"
    /\ SessionInit
    /\ cin \in CodecArgs
    /\ cout = NoOut
    /\ wire = NoWire
    /\ AppInit

NextCodec == Build \/ Decode

\* the explicit calls on an AsyncRcon, with any command
InitArgs == Init /\ mode = "async"

NextArgs == AsyncConnect \/ AsyncCommandArgs \/ AsyncClose

SpecArgs == InitArgs /\ [][NextArgs]_vars

SpecCodec == InitCodec /\ [][NextCodec]_vars

InitWire ==
    /\ mode = "wire"
    /\ SessionInit
    /\ cin = NoArgs
    /\ cout = NoOut
    /\ wire \in {[NoWire EXCEPT !.data = v] : v \in WireValues}
    /\ AppInit

NextWire == ReadLength \/ DecodeWire

SpecWire == InitWire /\ [][NextWire]_vars

InitSecret ==
    /\ mode = "secret"
    /\ SessionInit
    /\ cin = NoArgs
    /\ cout = NoOut
    /\ wire = NoWire
    /\ gui = GuiInit
    /\ fs = FsInit
    /\ audit = AuditInit
    /\ user = UserInit
    /\ clock = 1
    /\ tasks = TasksInit
    /\ pair \in {[PairInit EXCEPT
                      !.client = c, !.password = pw,
                      !.rcon = [i \in Runs |-> [RconInit EXCEPT !.password = pw[i]]],
                      !.arcon = [i \in Runs |-> [ARconInit EXCEPT !.password = pw[i]]]] :
                  c \in {"user", "sync", "async"}, pw \in [Runs -> Secrets]}

NextSecret == PairUser \/ PairSync \/ PairAsync

SpecSecret == InitSecret /\ [][NextSecret]_vars

InitTasks ==
    /\ mode = "tasks"
    /\ SessionInit
    /\ cin = NoArgs
    /\ cout = NoOut
    /\ wire = NoWire
    /\ AppInit

NextTasks ==
    \/ TasksConnect \/ TasksServer \/ TasksFeed
    \/ \E t \in TaskIds : TaskStart(t) \/ TaskResume(t) \/ TaskTimeout(t)

SpecTasks == InitTasks /\ [][NextTasks]_vars

InitUser ==
    /\ mode = "user"
    /\ SessionInit
    /\ cin = NoArgs
    /\ cout = NoOut
    /\ wire = NoWire
    /\ AppInit

NextUser == ActiveSession \/ CloseSession \/ SetPassword \/ ClockTick \/ ClockSet

SpecUser == InitUser /\ [][NextUser]_vars

InitGui ==
    /\ mode = "gui"
    /\ SessionInit
    /\ cin = NoArgs
    /\ cout = NoOut
    /\ wire = NoWire
    /\ AppInit

NextGui ==
    \/ ConnectToServer
    \/ FetchCall
    \/ FetchReturn
    \/ AutoRefreshCall
    \/ AutoRefreshReturn
    \/ SendCommand
    \/ WorkerCall
    \/ WorkerReturn
    \/ Server

SpecGui == InitGui /\ [][NextGui]_vars

InitFs ==
    /\ mode = "fs"
    /\ SessionInit
    /\ cin = NoArgs
    /\ cout = NoOut
    /\ wire = NoWire
    /\ gui = GuiInit
    /\ fs \in {FsInit, [FsInit EXCEPT !.config = File(0, MaxChunks), !.prev = File(0, MaxChunks)]}
    /\ audit = AuditInit
    /\ user = UserInit
    /\ clock = 1
    /\ tasks = TasksInit
    /\ pair = PairInit

NextFs ==
    \/ SaveConfigMkstemp
    \/ SaveConfigWrite
    \/ SaveConfigReplace
    \/ SaveConfigExcept
    \/ LoadConfig

SpecFs == InitFs /\ [][NextFs]_vars

InitAudit ==
    /\ mode = "audit"
    /\ SessionInit
    /\ cin = NoArgs
    /\ cout = NoOut
    /\ wire = NoWire
    /\ gui = GuiInit
    /\ fs = FsInit
    /\ audit \in {[AuditInit EXCEPT !.orjson = o, !.exists = e] : o, e \in BOOLEAN}
    /\ user = UserInit
    /\ clock = 1
    /\ tasks = TasksInit
    /\ pair = PairInit

NextAudit == ToSave \/ ToLoad \/ WriteLine

SpecAudit == InitAudit /\ [][NextAudit]_vars

----------------------------------------------------------------------------
(* Properties *)

\* the authenticated flag of the client that runs
Authenticated == IF mode = "sync" THEN rcon._logged_in ELSE arcon._ready

\* the client holds no transport
Released ==
    IF mode = "sync" THEN rcon.socket = None
    ELSE arcon._reader = None /\ arcon._writer = None

\* the calls that run a login exchange, and those that close
LoginOps == {"login", "connect", "__enter__", "__aenter__"}

CloseOps == {"close", "__exit__", "__aexit__"}

\* C1: when the reply to the AUTH packet carries request id -1, login() (sync)
\* and connect() (async) raise ServerAuthError, the authenticated flag is false
\* afterwards, and the client still holds the open transport that connect
\* acquired: the socket it had before login(), the stream this connect() opened.
C1_AuthFailureKeepsConnected ==
    (last.op \in LoginOps /\ last.rid = <<-1>>) =>
        /\ last.raised = "ServerAuthError"
        /\ ~Authenticated
        /\ IF mode = "sync"
           THEN /\ rcon.socket # None
                /\ rcon.socket \in net.open
                /\ rcon.socket = (IF last.op = "login" THEN last.pre.transport ELSE last.opened)
           ELSE /\ arcon._writer # None
                /\ arcon._writer = last.opened
                /\ arcon._reader = last.opened
                /\ last.opened \in net.open

\* a second login() on a logged-in Rcon is answered with id -1
C1_Witness ==
    mode = "sync" /\ last.op = "login" /\ last.rid = <<-1>> /\ last.pre.auth

\* C2: a command() on a session that is not authenticated writes no byte and
\* sends no request; Rcon.command returns None, AsyncRcon.command raises
\* SocketConnectionError.
C2_NoSendUnauthenticated ==
    (last.op = "command" /\ ~last.pre.auth) =>
        /\ last.sent = 0
        /\ last.req_id = <<>>
        /\ mode = "sync" => (last.raised = "" /\ last.ret = PyNone)
        /\ mode = "async" => last.raised = "SocketConnectionError"

\* command() on an AsyncRcon whose connect() opened the stream and failed to log in
C2_Witness ==
    mode = "async" /\ last.op = "command" /\ ~last.pre.auth /\ last.pre.transport # None

\* C3: a transport failure during command() leaves the session closed (no
\* transport, not authenticated) and is surfaced to the caller.
C3_FailureClosesSession ==
    (last.op = "command" /\ last.fail # "") =>
        (Released /\ ~Authenticated /\ last.raised # "")

\* C4: close() raises nothing and leaves no transport and authenticated false,
\* and in every reachable state closing twice leaves the object and the network
\* as closing once does.
C4_CloseTotalIdempotent ==
    /\ last.op \in CloseOps => (last.raised = "" /\ Released /\ ~Authenticated)
    /\ IF mode = "sync"
       THEN LET r1 == Rcon_close(rcon, net)
                r2 == Rcon_close(r1.self, r1.net)
            IN  /\ r1.raised = "" /\ r2.raised = ""
                /\ r1.self.socket = None /\ ~r1.self._logged_in
                /\ r2.self = r1.self /\ r2.net = r1.net
       ELSE LET r1 == AsyncRcon_close(arcon, net)
                r2 == AsyncRcon_close(r1.self, r1.net)
            IN  /\ r1.raised = "" /\ r2.raised = ""
                /\ r1.self._reader = None /\ r1.self._writer = None /\ ~r1.self._ready
                /\ r2.self = r1.self /\ r2.net = r1.net

\* close() on a client that was connected and is already closed
C4_Witness ==
    last.op = "close" /\ last.pre.transport = None /\ net.nconn > 0

\* C5: once the with statement is left, no connection is open.
C5_ScopeReleasesTransport == scope = "left" => net.open = {}

\* C6: after an abandoned (timed-out or cancelled) AsyncRcon.command(), a
\* further command() writes nothing and returns no body until connect() has
\* opened and logged in a new connection.
C6_AbandonedSessionUnusable ==
    (mode = "async" /\ last.op = "command" /\ last.pre.stale) =>
        (last.sent = 0 /\ last.ret.t # "str")

\* C7: a body returned by command() comes from a reply whose request id is the
\* id of the request this call sent.
C7_ReplyIdValidated ==
    (last.op = "command" /\ last.ret.t = "str") => last.rid = last.req_id

\* C8: a reply with request id -1 during command() surfaces ServerAuthError.
C8_CommandAuthFailure ==
    (last.op = "command" /\ last.rid = <<-1>>) => last.raised = "ServerAuthError"

\* The arguments the spec allows: a request id in [0, 2^31), a type in {0, 2, 3},
\* an ASCII text body
ValidArgs ==
    /\ cin.req_id.t = "int" /\ cin.req_id.n >= 0
    /\ cin.packet_type.t = "int" /\ cin.packet_type.n \in {0, 2, 3}
    /\ cin.data.t = "str"
    /\ IsAscii(cin.data.s)

\* C9: for valid arguments build raises nothing and decode(build(id, type,
\* body)) is (10 + len(body), id, type, body).
C9_RoundTrip ==
    (mode = "codec" /\ ValidArgs) =>
        /\ cout.stage # "args" => cout.built.raised = ""
        /\ cout.stage = "decoded" =>
              cout.decoded = << 10 + Len(cin.data.s), cin.req_id.n, cin.packet_type.n,
                                PyStr(cin.data.s) >>

\* the largest request id, with a body of two characters or more
C9_Witness ==
    /\ cout.stage = "decoded" /\ ValidArgs
    /\ cin.req_id.n = INT32_MAX /\ Len(cin.data.s) >= 2

\* The non-negative integer whose little-endian signed 32-bit form is b[i..i+3]
LittleEndian(b, i) == b[i] + 256 * b[i + 1] + 65536 * b[i + 2] + 16777216 * b[i + 3]

\* The integer whose little-endian signed 32-bit form is b[i..i+3]
SignedLittleEndian(b, i) ==
    IF b[i + 3] < 128 THEN LittleEndian(b, i)
    ELSE ((b[i] + 256 * b[i + 1] + 65536 * b[i + 2] + 16777216 * (b[i + 3] - 128))
          - INT32_MAX) - 1

SecretArgs == [req_id |-> PyInt(1), packet_type |-> PyInt(3), data |-> PyStr(Secret)]

\* C10: every frame build returns has 14 + len(payload) bytes: the little-endian
\* length 10 + len(payload), the id and the type, the payload, two zero bytes;
\* build(1, 3, "secret") is 20 bytes with header (16, 1, 3).
C10_FrameLayout ==
    (cout.stage # "args" /\ cout.built.raised = "") =>
        LET b == cout.built.bytes
            p == cin.data.s
        IN  /\ Len(b) = 14 + Len(p)
            /\ \A i \in 1..Len(b) : b[i] \in 0..255
            /\ b[4] < 128 /\ b[8] < 128
            /\ LittleEndian(b, 1) = 10 + Len(p)
            /\ LittleEndian(b, 5) = cin.req_id.n
            /\ SignedLittleEndian(b, 9) = cin.packet_type.n
            /\ SubSeq(b, 13, 12 + Len(p)) = p
            /\ b[Len(b) - 1] = 0 /\ b[Len(b)] = 0
            /\ cin = SecretArgs =>
                  (Len(b) = 20 /\ SubSeq(b, 1, 12) = <<16, 0, 0, 0, 1, 0, 0, 0, 3, 0, 0, 0>>)

\* build(1, 3, "secret") has returned
C10_Witness == cout.stage = "built" /\ cin = SecretArgs

\* C11: when the request id is negative or no integer, or the payload is
\* neither str nor bytes, build raises ErrorParameter and returns no bytes.
C11_BuildRejectsIdAndPayload ==
    (/\ cout.stage # "args"
     /\ \/ cin.req_id.t \notin {"int", "bool"}
        \/ cin.req_id.n < 0
        \/ cin.data.t \notin {"str", "bytes"}) =>
        (cout.built.raised = "ErrorParameter" /\ cout.built.bytes = <<>>)

\* build(1, 3, 12345) has been called
C11_Witness ==
    /\ cout.stage = "built"
    /\ cin = [req_id |-> PyInt(1), packet_type |-> PyInt(3), data |-> PyInt(12345)]

\* C12: when the packet type is no integer, or an integer other than 0, 2 and
\* 3, build raises ErrorParameter and returns no frame.
C12_BuildRejectsUnknownType ==
    (/\ cout.stage # "args"
     /\ \/ cin.packet_type.t \notin {"int", "bool"}
        \/ cin.packet_type.n \notin {0, 2, 3}) =>
        (cout.built.raised = "ErrorParameter" /\ cout.built.bytes = <<>>)

\* C13: build raises ErrorParameter for a str payload with a character that
\* is not ASCII, and raises no exception of another kind.
C13_BuildFailsWithErrorParameterOnly ==
    cout.stage # "args" =>
        /\ cout.built.raised \in {"", "ErrorParameter"}
        /\ (cin.data.t = "str" /\ ~IsAscii(cin.data.s)) => cout.built.raised = "ErrorParameter"

\* C14: decode of a bytes buffer raises nothing; it returns () when the buffer
\* has fewer than 14 bytes or a byte of 12 .. len-2 is not ASCII, and otherwise
\* the 4-tuple of the three little-endian header fields and the body.
C14_DecodeTotal ==
    (wire.data.t = "bytes" /\ "decode" \in wire.done) =>
        LET b == wire.data.s
            d == wire.decode
        IN  /\ d.raised = ""
            /\ IF Len(b) < 14 \/ \E k \in 13..(Len(b) - 2) : b[k] >= 128
               THEN d.ret = <<>>
               ELSE /\ Len(d.ret) = 4
                    /\ d.ret[1] = SignedLittleEndian(b, 1)
                    /\ d.ret[2] = SignedLittleEndian(b, 5)
                    /\ d.ret[3] = SignedLittleEndian(b, 9)
                    /\ d.ret[4] = PyStr(SubSeq(b, 13, Len(b) - 2))

\* decode(b"\xff" * 20) has returned
C14_Witness == "decode" \in wire.done /\ wire.data = PyBytes(Wire20)

\* C15: read_length of a bytes buffer raises nothing; it returns 0 for fewer
\* than 4 bytes and otherwise the little-endian signed value of the first 4.
C15_ReadLengthTotal ==
    (wire.data.t = "bytes" /\ "read_length" \in wire.done) =>
        LET b == wire.data.s
            r == wire.read_length
        IN  /\ r.raised = ""
            /\ r.ret = IF Len(b) < 4 THEN 0 ELSE SignedLittleEndian(b, 1)

\* read_length of the four bytes ff ff ff ff has returned
C15_Witness ==
    "read_length" \in wire.done /\ wire.data = PyBytes(<<255, 255, 255, 255>>)

\* C16: on a ready AsyncRcon, command() with more than 1446 characters raises
\* with nothing written, nothing read and the object as it was; with exactly
\* 1446 characters the call goes on to build and write its request.
C16_OversizeRejectedBeforeSend ==
    [][(mode = "async" /\ arcon._ready /\ ops' = ops + 1 /\ last'.op = "command") =>
          /\ last'.cmdlen > 1446 =>
                /\ last'.raised # "" /\ last'.ret = PyNone
                /\ last'.sent = 0 /\ last'.req_id = <<>>
                /\ arcon' = arcon /\ net' = net
          /\ last'.cmdlen = 1446 =>
                \/ last'.fail = "send"
                \/ last'.req_id # <<>> /\ last'.sent = 1460]_vars

\* a command of 1446 characters was answered
C16_Witness ==
    /\ mode = "async" /\ last.op = "command" /\ last.pre.auth
    /\ last.cmdlen = 1446 /\ last.ret.t = "str"

C18_AsyncTimeoutTyped ==
    (mode = "async" /\ last.fail \in {"conn-timeout", "timeout"}) =>
        last.raised = "ServerTimeOut"

\* the calls that open a connection
ConnectOps == {"connect", "__enter__", "__aenter__"}

\* C19: a connection attempt that fails on a session without transport raises
\* ServerTimeOut on a timeout and otherwise ServerError (Rcon) or
\* SocketConnectionError (AsyncRcon), opens nothing, and leaves the session
\* without transport and not authenticated.
C19_FailedConnectDisconnected ==
    (/\ last.op \in ConnectOps
     /\ last.fail \in {"conn-timeout", "refused"}
     /\ last.pre.transport = None /\ ~last.pre.auth) =>
        /\ last.raised = (IF last.fail = "conn-timeout" THEN "ServerTimeOut"
                          ELSE IF mode = "sync" THEN "ServerError"
                          ELSE "SocketConnectionError")
        /\ last.opened = None /\ last.sent = 0
        /\ Released /\ ~Authenticated

\* a connection attempt that times out after the session was closed
C19_Witness ==
    /\ last.op = "connect" /\ last.fail = "conn-timeout"
    /\ last.pre.transport = None /\ net.nconn > 0

\* C20: Rcon.command() raises nothing: when the write, a read or the decoding
\* of the reply fails, so that the call ends without a decoded reply, it
\* returns None; connect() and login() raise when the connection attempt, the
\* write, a read or the decoding fails.
C20_SyncCommandSwallows ==
    mode = "sync" =>
        /\ last.op = "command" =>
              /\ last.raised = ""
              /\ (last.rid = <<>> /\ (last.fail # "" \/ last.req_id # <<>>)) => last.ret = PyNone
        /\ (/\ last.op \in {"connect", "login", "__enter__"}
            /\ last.rid = <<>> /\ (last.fail # "" \/ last.req_id # <<>>)) => last.raised # ""

\* command() got a reply that does not decode
C20_Witness ==
    /\ mode = "sync" /\ last.op = "command" /\ last.pre.auth
    /\ last.fail = "" /\ last.req_id # <<>> /\ last.rid = <<>>

\* C21: AsyncRcon.command() either returns a str, the body of a reply it
\* read and decoded after writing its request, or raises; a call that is
\* refused or meets a failure raises and returns nothing.
C21_AsyncCommandNeverSilent ==
    (mode = "async" /\ last.op = "command") =>
        /\ last.raised = "" =>
              (last.ret.t = "str" /\ last.req_id # <<>> /\ last.rid # <<>> /\ last.fail = "")
        /\ last.raised # "" => last.ret = PyNone
        /\ (last.fail # "" \/ ~last.pre.auth \/ last.rid = <<>>) => last.raised # ""

\* command() on a ready AsyncRcon whose peer closed before the reply was whole
C21_Witness ==
    mode = "async" /\ last.op = "command" /\ last.pre.auth /\ last.fail = "eof"

\* the errors of mcrconpy.exceptions that the client raises
TypedErrors ==
    {"ErrorParameter", "ServerTimeOut", "SocketConnectionError", "ServerError",
     "ServerAuthError"}

\* the calls that run a request-reply exchange
ExchangeOps == LoginOps \cup {"command"}

\* C22: when the peer closes before a read has its n bytes, the call raises
\* SocketConnectionError: it returns no body and logs nobody in.
C22_ShortReadIsConnectionClosed ==
    (last.op \in ExchangeOps /\ last.fail = "eof") =>
        /\ last.raised = "SocketConnectionError"
        /\ last.ret = PyNone
        /\ Authenticated => last.pre.auth

\* C23: when a reply was read whole and decode returns (), login() and
\* AsyncRcon.connect()/command() raise one of the typed errors, and the
\* exchange does not set the authenticated flag.
C23_DecodeFailureTyped ==
    (/\ last.op \in ExchangeOps /\ ~(mode = "sync" /\ last.op = "command")
     /\ last.fail = "" /\ last.req_id # <<>> /\ last.rid = <<>>) =>
        /\ last.raised \in TypedErrors
        /\ Authenticated => last.pre.auth

\* the authenticated flag after the step
AuthenticatedNext == IF mode = "sync" THEN rcon'._logged_in ELSE arcon'._ready

\* C24: the authenticated flag changes from false to true only in a call
\* that runs the login exchange, returns normally, and has decoded a reply to
\* the request it wrote with an id other than -1; it is false after a close.
C24_AuthenticatedOnlyByLogin ==
    [][/\ (~Authenticated /\ AuthenticatedNext) =>
             /\ last'.op \in LoginOps /\ ops' = ops + 1
             /\ last'.raised = ""
             /\ last'.req_id # <<>> /\ last'.rid # <<>> /\ last'.rid # <<-1>>
       /\ (ops' = ops + 1 /\ last'.op \in CloseOps) => ~AuthenticatedNext]_vars

\* a login exchange set the flag on a session that already held a transport
C24_Witness ==
    /\ last.op \in LoginOps /\ Authenticated /\ ~last.pre.auth
    /\ last.pre.transport # None

\* C30: a new User is not logged in and has no timing field set;
\* active_session() sets is_login and start_session; close_session() clears
\* is_login and sets end_session, and leaves seconds_session = end_session -
\* start_session, not negative, when start_session is set and None otherwise.
C30_UserSessionLifecycle ==
    LET u == user.self IN
    /\ user.last = "User" =>
          /\ ~u.is_login
          /\ u.start_session = PyNone /\ u.end_session = PyNone
          /\ u.seconds_session = PyNone
    /\ user.last = "active_session" => (u.is_login /\ u.start_session # PyNone)
    /\ user.last = "close_session" =>
          /\ ~u.is_login /\ u.end_session # PyNone
          /\ IF u.start_session = PyNone THEN u.seconds_session = PyNone
             ELSE /\ u.seconds_session # PyNone
                  /\ u.seconds_session.n = u.end_session.n - u.start_session.n
                  /\ u.seconds_session.n >= 0

\* q starts with p
IsPrefix(p, q) == Len(p) <= Len(q) /\ SubSeq(q, 1, Len(p)) = p

C28_SaveConfigAtomic ==
    /\ fs.config = fs.prev \/ (fs.config = File(fs.new, MaxChunks) /\ fs.result = "saved")
    /\ fs.config.exists => Complete(fs.config)
    /\ fs.result = "failed" => fs.config = fs.prev
    /\ fs.result = "saved" => fs.config = File(fs.new, MaxChunks)
    /\ fs.loaded.exists => Complete(fs.loaded)

\* a save that failed in os.replace after an earlier one succeeded
C28_Witness ==
    /\ fs.pc = "idle" /\ fs.result = "failed" /\ fs.new >= 2
    /\ fs.config = File(fs.new - 1, MaxChunks)
    /\ fs.loaded = fs.config

\* callers of command() that have sent their request and not read a reply
InProgress ==
    Cardinality({w \in Threads : gui.workers[w].pc = "sent"})
    + (IF gui.wait THEN 1 ELSE 0)

\* C25: the GUI never has two command() calls in progress on its Rcon: not
\* one of a worker thread and one of the main thread, not two of two workers.
C25_GuiOneCommandAtATime == InProgress <= 1

\* C26: when connect() or login() fails in connect_to_server, an error box
\* is shown, no exception leaves the handler and rcon_client is None.
C26_GuiConnectFailureSurfaced ==
    (gui.handler = "connect_to_server" /\ gui.raised # "") =>
        /\ gui.shown = "error"
        /\ gui.escaped = ""
        /\ ~gui.rcon_client

\* C27: after k >= 1 refreshes in a row that got no response the delay of the
\* next one is min(5000 * 2^k, 60000) ms; after a refresh that got one the
\* failure counter is 0 and the delay 5000 ms; the delay is in 5000..60000.
C27_GuiRefreshBackoff ==
    /\ gui._refresh_failures = gui.streak
    /\ gui._refresh_interval =
          IF gui.streak = 0 THEN 5000
          ELSE IF 5000 * (2 ^ gui.streak) < 60000 THEN 5000 * (2 ^ gui.streak) ELSE 60000
    /\ gui._refresh_interval \in 5000..60000

\* C31: set_password(p) returns True exactly when p is not empty and differs
\* from the stored password, and then get_password() is p; else it returns
\* False and the stored password is as before.
C31_SetPasswordChanges ==
    user.last = "set_password" =>
        /\ user.ret \in {PyTrue, PyFalse}
        /\ user.ret = PyTrue <=> (truthy(user.arg) /\ user.arg # user.before)
        /\ user.ret = PyTrue => User_get_password(user.self) = user.arg
        /\ user.ret = PyFalse => User_get_password(user.self) = user.before

\* the same password set a second time
C31_Witness ==
    /\ user.last = "set_password" /\ user.ret = PyFalse
    /\ truthy(user.arg) /\ user.arg = user.before

----------------------------------------------------------------------------
\* the frame a call writes: 4 bytes of length, 8 of id and type, the payload
\* (the command, the password for a login) and two NUL bytes
RequestLen ==
    14 + IF last.op = "command" THEN last.cmdlen ELSE Len(RconInit.password.s)

\* C32: a call of either client writes nothing or one request frame, reads
\* only after it has written, and reads at most twice: 4 bytes, then the
\* number of bytes those 4 declare, all of them when the transport delivers;
\* a reply decoded was read so. A call that failed wrote its frame once.
C32_OneRequestOneReply ==
    /\ last.sent \in {0, RequestLen}
    /\ last.sent = 0 => last.reads = <<>>
    /\ Len(last.reads) <= 2
    /\ last.reads # <<>> => last.reads[1].n = 4
    /\ Len(last.reads) = 2 =>
           /\ last.reads[2].n = Packet_read_length(last.reads[1].data)
           /\ last.fail = "" => Len(last.reads[2].data) = last.reads[2].n
    /\ last.rid # <<>> => Len(last.reads) = 2

\* a command() that wrote its frame and got no reply returned with that one
\* frame written
C32_Witness ==
    /\ last.op = "command" /\ last.fail = "timeout"
    /\ last.sent = RequestLen /\ Len(last.reads) = 1

----------------------------------------------------------------------------
\* the body the server wrote for the request of task t
OwnReply(t) == PyStr(<<97 + tasks.task[t].n>>)

Returned(t) == tasks.task[t].pc = "done" /\ tasks.task[t].raised = ""

----------------------------------------------------------------------------
\* C34: when the Rcon object holds another socket after a call than before
\* it and is_login() is true, that call logged in on the socket it opened:
\* connect() on a logged-in Rcon does not leave is_login() true
C34_LoginIsOfSocketHeld ==
    (/\ mode = "sync" /\ last.op # "none"
     /\ rcon.socket # last.pre.transport
     /\ Rcon_is_login(rcon))
    => last.op = "__enter__" /\ last.raised = ""

----------------------------------------------------------------------------
\* C35: a client that is authenticated holds a transport: Rcon._logged_in
\* implies a socket, AsyncRcon._ready implies a reader and a writer
C35_AuthenticatedHoldsTransport ==
    /\ rcon._logged_in => rcon.socket # None
    /\ arcon._ready => (arcon._reader # None /\ arcon._writer # None)

\* a command() has returned on a logged-in Rcon that holds its socket
C35_Witness ==
    /\ mode = "sync" /\ rcon._logged_in /\ rcon.socket # None
    /\ last.op = "command" /\ last.ret # PyNone

----------------------------------------------------------------------------
----------------------------------------------------------------------------
\* C37: the request id of a call lies in 0 .. 2^31 - 1 and is not -1,
\* Packet.build accepts it (no call fails with ErrorParameter, and the four
\* bytes written carry the id), and a reply that echoes it is not taken for
\* an authentication failure
C37_RequestIdInRange ==
    /\ last.raised # "ErrorParameter"
    /\ last.req_id # <<>> =>
          LET id == last.req_id[1]
              built == Packet_build(PyInt(id), PyInt(COMMAND), Cmd)
          IN  /\ 0 <= id /\ id <= INT32_MAX /\ id # -1
              /\ built.raised = ""
              /\ SubSeq(built.bytes, 5, 8) = struct_pack_i(id)
              /\ last.rid = last.req_id => last.raised # "ServerAuthError"

\* a login with the largest id there is, echoed by the server
C37_Witness ==
    /\ last.op = "login" /\ last.req_id = <<INT32_MAX>> /\ last.rid = <<INT32_MAX>>
    /\ last.raised = "" /\ last.ret = PyTrue

----------------------------------------------------------------------------
\* C38: at most one auto_refresh is scheduled with root.after() at any time,
\* however often Connect has succeeded
C38_OneRefreshChain == gui.timers <= 1

----------------------------------------------------------------------------
\* C39: two runs that differ only in the password show the same to_dict(),
\* the same repr() and the same error, with the same message, after every
\* call of User, Rcon and AsyncRcon
C39_PasswordNotObservable == pair.seen[1] = pair.seen[2]

====
